---- MODULE Spec2Model ----
(***************************************************************************)
(* Message store, session registry and realtime gateway of the messaging   *)
(* backend: models/Message.js (src/unnamed/part_000), the controllers of   *)
(* messages, accounts and contacts, the authentication middleware and      *)
(* socket/socketHandler.js.                                                *)
(*                                                                         *)
(* A step of the model is what runs between two awaits of a handler, or    *)
(* the application of one database operation.  An operation is applied at  *)
(* some moment after it was called, and the handler goes on at some moment *)
(* after that.                                                             *)
(*                                                                         *)
(* One clock tick stands for one second.  Message ids are the positions of *)
(* the documents in the collection, so id order is insertion order.        *)
(***************************************************************************)
EXTENDS Integers, Sequences, FiniteSets, TLC

\* ------------------------------------------------------------------ bounds
MaxMsgs  == 2      \* documents the collection may hold
MaxConns == 2      \* socket connections ever opened
MaxTasks == 2      \* socket event handlers in flight at once
MaxCalls == 2      \* HTTP request handlers in flight at once
MaxTime  == 2      \* clock ticks
MaxUnsaved == 1    \* armed timers that hold a document whose insert failed
MaxOps   == 4      \* client requests (HTTP calls, connections, socket events) in a run
MaxStoreOps == 3   \* HTTP calls in a run of the life of a message
MaxQueryOps == 3   \* HTTP calls in a run of the queries
MaxCreateOps == 3  \* client requests in a run of the creates
MaxWriteOps == 3   \* client requests in a run of the write paths alone
MaxAccountOps == 3 \* HTTP calls in a run with account deletion
MaxPresenceOps == 3 \* client requests in a run of accounts, contacts and presence

\* ------------------------------------------------------------- identifiers
\* User ids as clients spell them.  1 and 2 are the canonical (lower-case
\* hex) ids of the two users that exist at the start, 3 is a well-formed id
\* of no user, 4 is the id the next registration gets, 11 and 12 are the
\* upper-case spellings of 1 and 2, 0 is malformed.
Users     == {1, 2}
NoUserId  == 3
NewUserId == 4
UserIds   == Users \cup {NoUserId, NewUserId}
RawIds    == {0, 1, 2, 3, 11, 12}
Conns    == 1..MaxConns

\* null.  The clock starts at 1, so no timestamp equals it.
None     == 0

\* mongoose.Types.ObjectId.isValid: any 24-digit hex string, either case.
IsValidObjectId(r) == r # 0

\* Casting a string to ObjectId reads the hex digits case-insensitively;
\* toString() of the result is the lower-case spelling.
CastId(r) == IF r > 10 THEN r - 10 ELSE r

\* JavaScript string order: upper-case letters sort before lower-case ones.
StrRank(r) == IF r > 10 THEN r - 10 ELSE r + 10

\* [userId1, userId2].sort().join('-')
generateConversationId(a, b) ==
  IF StrRank(a) <= StrRank(b) THEN [k |-> "conv", a |-> a, b |-> b]
                              ELSE [k |-> "conv", a |-> b, b |-> a]

SocketRoom(c) == [k |-> "sock", a |-> c, b |-> 0]
UserRoom(r)   == [k |-> "user", a |-> r, b |-> 0]

\* ---------------------------------------------------------------- content
\* A string is a sequence of runs [ch, n]: the character ch repeated n times,
\* adjacent runs of different characters.  "E" is an emoji.
Run(ch, n) == [ch |-> ch, n |-> n]

\* String.prototype.trim: without the leading and the trailing white space.
Trim(s) ==
  LET idx == {i \in 1..Len(s) : s[i].ch # " "}
      lo  == CHOOSE i \in idx : \A j \in idx : i <= j
      hi  == CHOOSE i \in idx : \A j \in idx : j <= i
  IN IF idx = {} THEN <<>> ELSE SubSeq(s, lo, hi)

MaxContentLen == 1000
LongContent   == <<Run("a", MaxContentLen + 1)>>
ContentInputs == {<<Run("a", 1)>>, <<Run(" ", 1)>>, LongContent}
TypeInputs    == {"omitted", "text", "image"}

\* The send requests tried: every id with a plain content and no type, and
\* every content and type for the ids of the users.
PlainContent == <<Run("a", 1)>>
SendInputs ==
  [receiverId : RawIds, content : {PlainContent}, messageType : {"omitted"}]
    \cup [receiverId : Users, content : ContentInputs, messageType : TypeInputs]

\* ------------------------------------------------------------------ state
VARIABLES
  now,          \* the clock
  store,        \* the messages collection: sequence of documents
  timers,       \* pending auto-delivery timers of the pre-save hook
  users,        \* the users collection: id -> document or what is left of it
  conn,         \* per connection: state, transport open, token, user, rooms
  activeUsers,  \* the registry Map: user id -> socket id or None
  tasks,        \* socket event handlers in flight
  calls,        \* HTTP request handlers in flight
  out,          \* the events emitted by the latest step
  observed,     \* per connection: the newMessage events received, in order
  ops,          \* client requests received so far
  running       \* the server process is alive

vars == <<now, store, timers, users, conn, activeUsers, tasks, calls, out,
          observed, ops, running>>

\* A client request arrives at the running server.
Request == running /\ ops < MaxOps /\ ops' = ops + 1

\* A document of the users collection: the email, isOnline, the contacts
\* (the user ids of the entries, in order) and the version key __v.  Once
\* deleted, an id is never used again.
UserDoc(email, contacts) ==
  [deleted |-> FALSE, email |-> email, isOnline |-> FALSE, contacts |-> contacts,
   v |-> Len(contacts)]
Deleted == [deleted |-> TRUE, email |-> 0, isOnline |-> FALSE, contacts |-> <<>>, v |-> 0]

\* The ids that have a document.
Accounts == {u \in DOMAIN users : ~users[u].deleted}

storeVars  == <<store, timers>>
socketVars == <<conn, activeUsers, tasks, observed>>

StatusRank(s) == CASE s = "sent" -> 0 [] s = "delivered" -> 1 [] s = "read" -> 2

\* Schema defaults of a new document.
\* Variant: a new document starts as delivered.
NewDoc_Delivered(s, r, c, t) ==
  [sender |-> s, receiver |-> r, content |-> c, messageType |-> t,
   status |-> "delivered", deliveredAt |-> now, readAt |-> None,
   editedAt |-> None, isDeleted |-> FALSE, deletedAt |-> None,
   replyTo |-> None, createdAt |-> now]

NewDoc(s, r, c, t) ==
  [sender |-> s, receiver |-> r, content |-> c, messageType |-> t,
   status |-> "sent", deliveredAt |-> None, readAt |-> None,
   editedAt |-> None, isDeleted |-> FALSE, deletedAt |-> None,
   replyTo |-> None, createdAt |-> now]

Ids == 1..Len(store)

\* The document a handler holds before it has one.
NoDoc == [sender |-> 0, receiver |-> 0, content |-> <<>>, messageType |-> "text",
          status |-> "sent", deliveredAt |-> None, readAt |-> None,
          editedAt |-> None, isDeleted |-> FALSE, deletedAt |-> None,
          replyTo |-> None, createdAt |-> 0]

\* Each invocation of a handler has its own local variables; a key tells the
\* invocations in flight apart.
Keys   == 1..(MaxCalls + MaxTasks)
KeysInUse == {c.key : c \in calls} \cup {t.key : t \in tasks}
NewKey == CHOOSE k \in Keys :
            /\ k \notin KeysInUse
            /\ \A j \in Keys : j < k => j \in KeysInUse

\* ------------------------------------------------------------ Message model
\* updateMany({sender, receiver, status: 'sent'},
\*            {$set: {status: 'delivered', deliveredAt: new Date()}})
\* on the collection st; t is the Date built when the static was called.
\* Variant: the filter of markAsDelivered has no status condition.
markAsDeliveredOn_AnyStatus(st, senderId, receiverId, t) ==
  [i \in DOMAIN st |->
     IF /\ st[i].sender = senderId
        /\ st[i].receiver = receiverId
     THEN [st[i] EXCEPT !.status = "delivered", !.deliveredAt = t]
     ELSE st[i]]

markAsDeliveredOn(st, senderId, receiverId, t) ==
  [i \in DOMAIN st |->
     IF /\ st[i].sender = senderId
        /\ st[i].receiver = receiverId
        /\ st[i].status = "sent"
     THEN [st[i] EXCEPT !.status = "delivered", !.deliveredAt = t]
     ELSE st[i]]

\* updateMany({sender, receiver, status: {$in: ['sent','delivered']}},
\*            {$set: {status: 'read', readAt: new Date()}})
\* on the collection st; t is the Date built when the static was called.
\* Variant: the filter of markAsRead has no status condition.
markAsReadOn_AnyStatus(st, senderId, receiverId, t) ==
  [i \in DOMAIN st |->
     IF /\ st[i].sender = senderId
        /\ st[i].receiver = receiverId
     THEN [st[i] EXCEPT !.status = "read", !.readAt = t]
     ELSE st[i]]

markAsReadOn(st, senderId, receiverId, t) ==
  [i \in DOMAIN st |->
     IF /\ st[i].sender = senderId
        /\ st[i].receiver = receiverId
        /\ st[i].status \in {"sent", "delivered"}
     THEN [st[i] EXCEPT !.status = "read", !.readAt = t]
     ELSE st[i]]

\* result.modifiedCount of the updateMany of markAsRead: the documents the
\* filter matches, each of which the update changes.
ModifiedCount(st, senderId, receiverId) ==
  Cardinality({i \in DOMAIN st : /\ st[i].sender = senderId
                                 /\ st[i].receiver = receiverId
                                 /\ st[i].status \in {"sent", "delivered"}})

\* The pre('save') hook of a new document with status 'sent' arms a timer
\* that holds the in-memory document.  `key` names the handler whose insert
\* of the document is pending (0 when none is), `id` the stored document (0
\* while there is none); `pc` is "armed" until the callback has run and
\* "saving" while the save() it called is pending, `at` the Date the
\* callback took.
TimerDelay == 1
ArmTimer(key, doc) ==
  [id |-> 0, key |-> key, due |-> doc.createdAt + TimerDelay, doc |-> doc,
   pc |-> "armed", at |-> None]

\* The timers of the documents whose insert failed.
Unsaved == {t \in timers : t.id = 0 /\ t.key = 0}

\* The inserts that are pending.
Inserting ==
  Cardinality({c \in calls : c.pc = "insert"})
    + Cardinality({t \in tasks : t.pc = "insert"})

\* The insert of handler `key` has succeeded: its timer refers to document id.
TimersStored(key, id) ==
  {IF t.key = key THEN [t EXCEPT !.id = id, !.key = 0] ELSE t : t \in timers}

\* The insert of handler `key` has failed: its timer keeps the unsaved
\* document.
TimersFailed(key) ==
  {IF t.key = key THEN [t EXCEPT !.key = 0] ELSE t : t \in timers}

\* ------------------------------------------------------------- the process
\* The steps at which a handler waits for a write the database has received.
WritePcs == {"insert", "update", "save"}

\* A promise is rejected and nothing handles it: the process exits.  Its
\* sockets, the registry, the armed timers and the handlers in flight are
\* gone; the store, and the writes the database has received, are not.
Exit(without) ==
  /\ running' = FALSE
  /\ conn' = [c \in DOMAIN conn |->
                IF conn[c].st \in {"idle", "refused", "aborted"} THEN conn[c]
                ELSE [conn[c] EXCEPT !.open = FALSE, !.rooms = {},
                         !.st = IF @ \in {"online", "offline"} THEN @ ELSE "closed"]]
  /\ activeUsers' = [u \in DOMAIN activeUsers |-> None]
  /\ tasks' = {t \in tasks : t.pc \in WritePcs}
  /\ calls' = {c \in calls : c.pc \in WritePcs}
  /\ timers' = {t \in timers \ {without} : t.pc = "saving"}
  /\ out' = {}

\* The timer callback runs: the in-memory document still has status 'sent',
\* so it sets status and deliveredAt = new Date() and calls save() without
\* awaiting it.  While the insert of the document is pending, save() is
\* rejected (ParallelSaveError), and nothing handles the rejection.
TimerFire(t) ==
  /\ running
  /\ t \in timers
  /\ t.pc = "armed"
  /\ now >= t.due
  /\ IF t.key # 0
     THEN Exit(t)
     ELSE /\ timers' = (timers \ {t}) \cup {[t EXCEPT !.pc = "saving", !.at = now]}
          /\ out' = {}
          /\ UNCHANGED <<conn, activeUsers, tasks, calls, running>>
  /\ UNCHANGED <<now, store, users, observed, ops>>

\* The save() of the timer callback is applied.  For a stored document it
\* writes the modified paths, status and deliveredAt, whatever the stored
\* status is by then; for a document whose insert failed it tries the insert
\* again.  When it fails, nothing handles the rejection.
TimerSaved(t, ok) ==
  /\ t \in timers
  /\ t.pc = "saving"
  /\ IF ok
     THEN /\ IF t.id # 0
             THEN store' = [store EXCEPT ![t.id].status = "delivered",
                                         ![t.id].deliveredAt = t.at]
             ELSE /\ Len(store) < MaxMsgs
                  /\ store' = Append(store, [t.doc EXCEPT !.status = "delivered",
                                                          !.deliveredAt = t.at])
          /\ timers' = timers \ {t}
          /\ out' = {}
          /\ UNCHANGED <<conn, activeUsers, tasks, calls, running>>
     ELSE /\ running
          /\ Exit(t)
          /\ UNCHANGED store
  /\ UNCHANGED <<now, users, observed, ops>>

Tick ==
  /\ now < MaxTime
  /\ now' = now + 1
  /\ out' = {}
  /\ UNCHANGED <<storeVars, users, socketVars, calls, ops, running>>

\* A day passes: the time of the edit window.
EditWindow == 86400
Day ==
  /\ now <= MaxTime
  /\ now' = now + EditWindow
  /\ out' = {}
  /\ UNCHANGED <<storeVars, users, socketVars, calls, ops, running>>

\* ------------------------------------------------------- helpers (helpers.js)
\* containsEmoji: the pattern matches when any character is an emoji.
containsEmoji(text) == \E i \in 1..Len(text) : text[i].ch = "E"

\* String.length counts UTF-16 units: an emoji of the matched ranges
\* U+1F300..U+1F6FF takes two.
RECURSIVE JsLength(_)
JsLength(s) ==
  IF s = <<>> THEN 0
  ELSE (IF Head(s).ch = "E" THEN 2 * Head(s).n ELSE Head(s).n) + JsLength(Tail(s))

EmojiMaxLen == 10
DetectType(content) ==
  IF containsEmoji(content) /\ JsLength(Trim(content)) <= EmojiMaxLen
  THEN "emoji" ELSE "text"

\* Schema validation of save(): content required (after the trim setter),
\* at most 1000 characters, messageType within the enum.
SchemaValid(doc) ==
  /\ doc.content # <<>>
  /\ JsLength(doc.content) <= MaxContentLen
  /\ doc.messageType \in {"text", "emoji"}

\* ------------------------------------------------- HTTP API (messageController)
\* What a request is answered with: res.status(code).json(body), or an error
\* thrown to the error-handling middleware.  Requests carry the authenticated
\* user u (req.user).
Response(code, body) == [type |-> "response", conn |-> 0, code |-> code, body |-> body]
Thrown(name)         == [type |-> "thrown", conn |-> 0, error |-> name]
NoBody               == <<>>

\* Message ids as clients give them: 0 is malformed, the others are
\* well-formed and name a stored message or none.
MsgIdInputs == 0..MaxMsgs

\* isLength of the validation middleware counts a surrogate pair once: the
\* characters.
RECURSIVE Characters(_)
Characters(s) == IF s = <<>> THEN 0 ELSE Head(s).n + Characters(Tail(s))

\* Variant: validateMessage does not check the content.
validateMessage_AnyContent(r, content, mt) ==
  /\ IsValidObjectId(r)
  /\ mt \in {"omitted", "text", "emoji"}

\* validateMessage: receiverId isMongoId, content trimmed and 1..1000 long,
\* messageType absent or one of text, emoji.
validateMessage(r, content, mt) ==
  /\ IsValidObjectId(r)
  /\ Characters(Trim(content)) \in 1..MaxContentLen
  /\ mt \in {"omitted", "text", "emoji"}

\* A handler in flight: the user of the token and whether authenticateToken
\* found the account (auth), the await it is suspended at (pc), what the
\* request carries (peer, id, content, mt, replyTo, page, limit, query, pw,
\* flag), and its local variables: the Date it has built (at), the in-memory
\* document (doc) with its modified paths, the message read to be forwarded
\* (orig), and the results of its lookups and queries (hit, hit2,
\* senderFound, receiverFound, found, total, list, v).  For a conversation
\* fetch, began is the number of messages stored when the request arrived;
\* no handler reads it.
HttpCall(kind, u) ==
  [kind |-> kind, key |-> NewKey, user |-> u, auth |-> u \in Accounts,
   began |-> 0,
   pc |-> "auth", peer |-> 0, id |-> 0, content |-> <<>>, mt |-> "omitted",
   replyTo |-> None, at |-> None, doc |-> NoDoc, paths |-> {}, orig |-> NoDoc,
   hit |-> FALSE, hit2 |-> FALSE, senderFound |-> FALSE,
   receiverFound |-> FALSE, page |-> 0, limit |-> 0, query |-> <<>>,
   found |-> <<>>, total |-> 0, pw |-> "none", flag |-> FALSE, list |-> <<>>,
   v |-> 0]

\* A request arrives: authenticateToken verifies the token and its lookup of
\* the user is applied.  At most MaxCalls handlers are in flight.
Arrive(c) ==
  /\ Request
  /\ Cardinality(calls) < MaxCalls
  /\ calls' = calls \cup {c}
  /\ out' = {}
  /\ UNCHANGED <<now, storeVars, users, socketVars, running>>

\* The handler goes on to its next await: d is the handler once the
\* operation it awaits is applied.  A process that has exited goes nowhere.
Await(c, d) ==
  /\ calls' = IF running THEN (calls \ {c}) \cup {d} ELSE calls \ {c}
  /\ out' = {}

\* The handler answers and ends.
Answer(c, r) ==
  /\ running
  /\ calls' = calls \ {c}
  /\ out' = {r}

\* The insert of Message.create (sendMessage, forwardMessage) is applied and
\* the timer armed by the pre-save hook refers to the stored document, or
\* the insert fails and the timer stays armed with the unsaved document;
\* then populate resolves and the handler answers, or populate fails and the
\* message stays stored.
Create(c, ok) ==
  CASE c.pc = "insert" /\ ok ->
         /\ Len(store) < MaxMsgs
         /\ store' = Append(store, c.doc)
         /\ timers' = TimersStored(c.key, Len(store) + 1)
         /\ Await(c, [c EXCEPT !.pc = "populate", !.id = Len(store) + 1])
    [] c.pc = "insert" /\ ~ok ->
         /\ (\E t \in timers : t.key = c.key) => Cardinality(Unsaved) < MaxUnsaved
         /\ timers' = TimersFailed(c.key)
         /\ Answer(c, Thrown("StoreError"))
         /\ UNCHANGED store
    [] c.pc = "populate" ->
         /\ Answer(c, IF ok THEN Response(201, [message |-> c.id])
                            ELSE Thrown("StoreError"))
         /\ UNCHANGED <<store, timers>>
    [] OTHER -> FALSE

\* POST /api/messages.  replyTo is the message id given, None when the
\* request has none.
sendMessage(u, r, content, mt, replyTo) ==
  Arrive([HttpCall("send", u) EXCEPT !.peer = r, !.content = content, !.mt = mt,
                                     !.replyTo = replyTo])

\* The handler of POST /api/messages goes on: behind authenticateToken and
\* validateMessage it looks the receiver up; then Message.create validates
\* the document, stamps it, and its pre-save hook arms the timer; then the
\* insert and the populate.
sendMessageResume(c, ok) ==
  /\ c \in calls /\ c.kind = "send"
  /\ CASE c.pc = "auth" ->
            /\ running /\ ok
            /\ IF ~c.auth
               THEN Answer(c, Response(401, NoBody))
               ELSE IF ~validateMessage(c.peer, c.content, c.mt)
               THEN Answer(c, Response(400, NoBody))
               ELSE Await(c, [c EXCEPT !.pc = "receiver",
                                       !.hit = CastId(c.peer) \in Accounts])
            /\ UNCHANGED <<store, timers>>
       [] c.pc = "receiver" ->
            LET c0  == Trim(c.content)
                typ == IF c.mt = "omitted" THEN DetectType(c0) ELSE c.mt
                doc == [NewDoc(c.user, CastId(c.peer), c0, typ) EXCEPT
                          !.replyTo = c.replyTo]
            IN /\ running /\ ok
               /\ IF ~c.hit
                  THEN Answer(c, Response(404, NoBody)) /\ UNCHANGED timers
                  ELSE IF ~SchemaValid(doc)
                  THEN Answer(c, Thrown("ValidationError")) /\ UNCHANGED timers
                  ELSE /\ Len(store) + Inserting < MaxMsgs
                       /\ Await(c, [c EXCEPT !.pc = "insert", !.doc = doc])
                       /\ timers' = timers \cup {ArmTimer(c.key, doc)}
               /\ UNCHANGED store
       [] OTHER -> Create(c, ok)
  /\ UNCHANGED <<now, users, socketVars, ops, running>>

\* PUT /api/messages/read/:senderId
markAsReadHttp(u, senderId) ==
  Arrive([HttpCall("read", u) EXCEPT !.peer = senderId])

\* The handler of the PUT goes on: the sender lookup; the call of
\* Message.markAsRead, which builds readAt; the updateMany, applied with that
\* readAt; the answer with its modifiedCount.
markAsReadHttpResume(c) ==
  /\ c \in calls /\ c.kind = "read"
  /\ CASE c.pc = "auth" ->
            /\ running
            /\ IF ~c.auth
               THEN Answer(c, Response(401, NoBody))
               ELSE IF ~IsValidObjectId(c.peer)
               THEN Answer(c, Thrown("CastError"))
               ELSE Await(c, [c EXCEPT !.pc = "sender",
                                       !.hit = CastId(c.peer) \in Accounts])
            /\ UNCHANGED store
       [] c.pc = "sender" ->
            /\ running
            /\ IF ~c.hit
               THEN Answer(c, Response(404, NoBody))
               ELSE Await(c, [c EXCEPT !.pc = "update", !.at = now])
            /\ UNCHANGED store
       [] c.pc = "update" ->
            /\ store' = markAsReadOn(store, CastId(c.peer), c.user, c.at)
            /\ Await(c, [c EXCEPT !.pc = "answer",
                            !.total = ModifiedCount(store, CastId(c.peer), c.user)])
       [] c.pc = "answer" ->
            /\ Answer(c, Response(200, [modifiedCount |-> c.total]))
            /\ UNCHANGED store
       [] OTHER -> FALSE
  /\ UNCHANGED <<now, timers, users, socketVars, ops, running>>

\* ---- queries of the Message model
\* {sender, receiver} is the pair {a, b}.
Between(doc, a, b) ==
  \/ doc.sender = a /\ doc.receiver = b
  \/ doc.sender = b /\ doc.receiver = a

\* Variant: the filter has no isDeleted condition.
ConversationIds_WithDeleted(st, a, b) ==
  {i \in DOMAIN st : Between(st[i], a, b)}

\* The filter of getConversation and of the total count: the pair's messages
\* with isDeleted false.
ConversationIds(st, a, b) ==
  {i \in DOMAIN st : Between(st[i], a, b) /\ ~st[i].isDeleted}

\* sort({createdAt: -1}) of the documents S: every order of S in which
\* createdAt never increases (documents of one instant come in any order).
NewestFirst(st, S) ==
  {f \in [1..Cardinality(S) -> S] :
     /\ \A i, j \in 1..Cardinality(S) : i # j => f[i] # f[j]
     /\ \A i, j \in 1..Cardinality(S) : i < j => st[f[i]].createdAt >= st[f[j]].createdAt}

\* Variant: the skip is not applied.
Page_NoSkip(seq, skip, limit) ==
  [i \in 1..(IF Len(seq) < limit THEN Len(seq) ELSE limit) |-> seq[i]]

\* skip(skip).limit(limit)
Page(seq, skip, limit) ==
  [i \in 1..(IF Len(seq) - skip < 0 THEN 0
             ELSE IF Len(seq) - skip < limit THEN Len(seq) - skip ELSE limit)
     |-> seq[skip + i]]

\* Array.prototype.reverse
Reverse(seq) == [i \in 1..Len(seq) |-> seq[Len(seq) + 1 - i]]

\* Message.getConversation(userId1, userId2, page, limit): the results the
\* query can give, newest first.
getConversation(st, userId1, userId2, page, limit) ==
  {Page(sorted, (page - 1) * limit, limit) :
     sorted \in NewestFirst(st, ConversationIds(st, userId1, userId2))}

\* helpers.paginate
paginate(page, limit) == [skip |-> (page - 1) * limit, limit |-> limit]

\* helpers.getPaginationMeta (without nextPage and prevPage)
getPaginationMeta(page, limit, total) ==
  LET totalPages == (total + limit - 1) \div limit      \* Math.ceil(total / limit)
  IN [currentPage |-> page, totalPages |-> totalPages, totalResults |-> total,
      hasNextPage |-> page < totalPages, hasPrevPage |-> page > 1]

\* Variant: the count has no isDeleted condition.
getUnreadCount_WithDeleted(st, userId) ==
  Cardinality({i \in DOMAIN st : /\ st[i].receiver = userId
                                 /\ st[i].status # "read"})

\* Message.getUnreadCount
getUnreadCount(st, userId) ==
  Cardinality({i \in DOMAIN st : /\ st[i].receiver = userId
                                 /\ st[i].status # "read"
                                 /\ ~st[i].isDeleted})

\* The characters of a string, lower-cased (the 'i' flag of the search).
Lower(ch) == IF ch = "A" THEN "a" ELSE ch
RECURSIVE Expand(_)
Expand(s) ==
  IF s = <<>> THEN <<>>
  ELSE [i \in 1..Head(s).n |-> Lower(Head(s).ch)] \o Expand(Tail(s))

\* new RegExp(query.trim(), 'i') tested on the content, for a query of
\* letters: the query occurs in the content.
Matches(content, query) ==
  LET c == Expand(content)
      q == Expand(Trim(query))
  IN \E k \in 0..(Len(c) - Len(q)) : \A i \in 1..Len(q) : c[k + i] = q[i]

\* Message.getLatestConversations(userId, limit): the results the aggregation
\* can give.  $match keeps the user's messages with isDeleted false; after
\* $sort, $group by the other participant takes the first document of each
\* group as lastMessage and counts the group's messages received by the user
\* and not read; the groups are sorted by lastMessage.createdAt, newest
\* first, and cut at limit.  $lookup and $unwind drop the groups of the
\* participants that have no user document.
PeerOf(doc, userId) == IF doc.sender = userId THEN doc.receiver ELSE doc.sender

getLatestConversations(st, userId, limit) ==
  LET matched == {i \in DOMAIN st :
                    (st[i].sender = userId \/ st[i].receiver = userId) /\ ~st[i].isDeleted}
      peers   == {PeerOf(st[i], userId) : i \in matched} \cap Accounts
      group(p) == {i \in matched : PeerOf(st[i], userId) = p}
      firsts  == {pick \in [peers -> matched] :
                    \A p \in peers :
                      /\ pick[p] \in group(p)
                      /\ \A j \in group(p) : st[pick[p]].createdAt >= st[j].createdAt}
      unread(p) == Cardinality({i \in group(p) :
                                  st[i].receiver = userId /\ st[i].status # "read"})
      entry(i) == [participant |-> PeerOf(st[i], userId),
                   lastMessage |-> i,
                   unreadCount |-> unread(PeerOf(st[i], userId))]
  IN {Page([k \in 1..Len(order) |-> entry(order[k])], 0, limit) :
        order \in UNION {NewestFirst(st, {pick[p] : p \in peers}) : pick \in firsts}}

\* populate('replyTo', 'content sender'): besides the document itself, an
\* answer that carries document `id` carries the content and the sender of the
\* stored message its replyTo names.
Populated(st, id) == {id} \cup ({st[id].replyTo} \cap DOMAIN st)

\* ---- the endpoints
\* Query parameters as given: page and limit of the conversation fetch and of
\* the search, limit of the conversation list.
DefaultPage        == 1
ConversationLimit  == 50
SearchLimit        == 20
LatestLimit        == 20
MinQueryLen        == 2
MaxQueryLen        == 50

\* GET /api/messages/conversation/:userId
getConversationHttp(u, userId, page, limit) ==
  Arrive([HttpCall("conv", u) EXCEPT !.peer = userId, !.page = page, !.limit = limit,
                                     !.began = Len(store)])

\* The handler of the conversation fetch goes on: the lookup of the other
\* user; Message.getConversation, a page of the pair's messages, newest
\* first; countDocuments, the pair's total; the call of Message.markAsRead,
\* which builds readAt; the updateMany, which marks the messages of the other
\* user as read; the answer with the page, oldest first, and the pagination
\* of the total.
getConversationResume(c) ==
  /\ c \in calls /\ c.kind = "conv"
  /\ CASE c.pc = "auth" ->
            /\ running
            /\ IF ~c.auth
               THEN Answer(c, Response(401, NoBody))
               ELSE IF ~IsValidObjectId(c.peer)
               THEN Answer(c, Thrown("CastError"))
               ELSE Await(c, [c EXCEPT !.pc = "user",
                                       !.hit = CastId(c.peer) \in Accounts])
            /\ UNCHANGED store
       [] c.pc = "user" ->
            /\ running
            /\ IF ~c.hit
               THEN Answer(c, Response(404, NoBody))
               ELSE \E messages \in getConversation(store, c.user, CastId(c.peer),
                                                    c.page, c.limit) :
                      Await(c, [c EXCEPT !.pc = "find", !.found = messages])
            /\ UNCHANGED store
       [] c.pc = "find" ->
            /\ running
            /\ Await(c, [c EXCEPT !.pc = "count",
                  !.total = Cardinality(ConversationIds(store, c.user, CastId(c.peer)))])
            /\ UNCHANGED store
       [] c.pc = "count" ->
            /\ running
            /\ Await(c, [c EXCEPT !.pc = "update", !.at = now])
            /\ UNCHANGED store
       [] c.pc = "update" ->
            /\ store' = markAsReadOn(store, CastId(c.peer), c.user, c.at)
            /\ Await(c, [c EXCEPT !.pc = "answer"])
       [] c.pc = "answer" ->
            /\ Answer(c, Response(200,
                 [messages   |-> Reverse(c.found),
                  pagination |-> getPaginationMeta(c.page, c.limit, c.total)]))
            /\ UNCHANGED store
       [] OTHER -> FALSE
  /\ UNCHANGED <<now, timers, users, socketVars, ops, running>>

\* GET /api/messages/conversations
getConversations(u, limit) ==
  Arrive([HttpCall("list", u) EXCEPT !.limit = limit])

\* The handler of the conversation list goes on: one aggregation, whose
\* pipeline is built with mongoose.Types.ObjectId(userId), a call that the
\* driver accepts or refuses; then the answer.
getConversationsResume(c, ok) ==
  /\ c \in calls /\ c.kind = "list"
  /\ running
  /\ CASE c.pc = "auth" ->
            IF ~c.auth
            THEN ok /\ Answer(c, Response(401, NoBody))
            ELSE IF ~ok
            THEN Answer(c, Thrown("TypeError"))
            ELSE \E result \in getLatestConversations(store, c.user, c.limit) :
                   Await(c, [c EXCEPT !.pc = "answer", !.found = result])
       [] c.pc = "answer" ->
            ok /\ Answer(c, Response(200, [conversations |-> c.found]))
       [] OTHER -> FALSE
  /\ UNCHANGED <<now, storeVars, users, socketVars, ops, running>>

\* GET /api/messages/unread/count
getUnreadCountHttp(u) ==
  Arrive(HttpCall("unread", u))

\* The handler of the unread count goes on: one count; then the answer.
getUnreadCountResume(c) ==
  /\ c \in calls /\ c.kind = "unread"
  /\ running
  /\ CASE c.pc = "auth" ->
            IF ~c.auth
            THEN Answer(c, Response(401, NoBody))
            ELSE Await(c, [c EXCEPT !.pc = "answer",
                                    !.total = getUnreadCount(store, c.user)])
       [] c.pc = "answer" ->
            Answer(c, Response(200, [unreadCount |-> c.total]))
       [] OTHER -> FALSE
  /\ UNCHANGED <<now, storeVars, users, socketVars, ops, running>>

\* The filter of the search: the pair's messages with isDeleted false whose
\* content matches.
SearchIds(st, a, b, query) ==
  {i \in ConversationIds(st, a, b) : Matches(st[i].content, query)}

\* POST /api/messages/search/:userId
searchMessages(u, userId, query, page, limit) ==
  Arrive([HttpCall("search", u) EXCEPT !.peer = userId, !.query = query,
                                       !.page = page, !.limit = limit])

\* The handler of the search goes on: behind validateSearch, the length
\* check and the lookup of the other user; the find, a page of the matches,
\* newest first; countDocuments; the answer with the page and the
\* pagination of the total.
searchMessagesResume(c) ==
  /\ c \in calls /\ c.kind = "search"
  /\ running
  /\ CASE c.pc = "auth" ->
            IF ~c.auth
            THEN Answer(c, Response(401, NoBody))
            ELSE IF Characters(Trim(c.query)) \notin 1..MaxQueryLen   \* validateSearch
            THEN Answer(c, Response(400, NoBody))
            ELSE IF JsLength(Trim(c.query)) < MinQueryLen
            THEN Answer(c, Response(400, NoBody))
            ELSE IF ~IsValidObjectId(c.peer)
            THEN Answer(c, Thrown("CastError"))
            ELSE Await(c, [c EXCEPT !.pc = "user",
                                    !.hit = CastId(c.peer) \in Accounts])
       [] c.pc = "user" ->
            IF ~c.hit
            THEN Answer(c, Response(404, NoBody))
            ELSE \E sorted \in NewestFirst(store,
                                 SearchIds(store, c.user, CastId(c.peer), c.query)) :
                   Await(c, [c EXCEPT !.pc = "find",
                      !.found = Page(sorted, paginate(c.page, c.limit).skip,
                                     paginate(c.page, c.limit).limit)])
       [] c.pc = "find" ->
            Await(c, [c EXCEPT !.pc = "answer",
               !.total = Cardinality(SearchIds(store, c.user, CastId(c.peer), c.query))])
       [] c.pc = "answer" ->
            Answer(c, Response(200,
              [messages   |-> c.found,
               pagination |-> getPaginationMeta(c.page, c.limit, c.total)]))
       [] OTHER -> FALSE
  /\ UNCHANGED <<now, storeVars, users, socketVars, ops, running>>

\* GET /api/messages/:messageId
getMessage(u, messageId) ==
  Arrive([HttpCall("get", u) EXCEPT !.id = messageId])

\* The handler of the get goes on: the message is read; populate looks its
\* sender and its receiver up (null for one that has no document); the
\* participant check reads sender._id and, when the sender is another user,
\* receiver._id.
getMessageResume(c) ==
  /\ c \in calls /\ c.kind = "get"
  /\ running
  /\ CASE c.pc = "auth" ->
            IF ~c.auth
            THEN Answer(c, Response(401, NoBody))
            ELSE IF ~IsValidObjectId(c.id)
            THEN Answer(c, Thrown("CastError"))
            ELSE Await(c, [c EXCEPT !.pc = "find", !.hit = c.id \in Ids,
                              !.doc = IF c.id \in Ids THEN store[c.id] ELSE NoDoc])
       [] c.pc = "find" ->
            IF ~c.hit
            THEN Answer(c, Response(404, NoBody))
            ELSE Await(c, [c EXCEPT !.pc = "populate",
                                    !.senderFound   = c.doc.sender \in Accounts,
                                    !.receiverFound = c.doc.receiver \in Accounts])
       [] c.pc = "populate" ->
            IF ~c.senderFound \/ (c.doc.sender # c.user /\ ~c.receiverFound)
            THEN Answer(c, Thrown("TypeError"))
            ELSE IF ~(c.doc.sender = c.user \/ c.doc.receiver = c.user)
            THEN Answer(c, Response(403, NoBody))
            ELSE Answer(c, Response(200, [message |-> c.id, doc |-> c.doc]))
       [] OTHER -> FALSE
  /\ UNCHANGED <<now, storeVars, users, socketVars, ops, running>>

\* The paths of the in-memory document `doc` that differ from the document
\* read: what save() writes.
Modified(read, doc) == {p \in DOMAIN doc : doc[p] # read[p]}

\* save() of an existing document writes its modified paths.
SavePaths(st, id, doc, paths) ==
  [st EXCEPT ![id] = [p \in DOMAIN st[id] |-> IF p \in paths THEN doc[p] ELSE st[id][p]]]

\* Variant: any user passes the owner check.
IsOwner_Anyone(c) == TRUE

\* message.sender.toString() === req.user._id.toString(), on the document
\* the handler has read.
IsOwner(c) == c.orig.sender = c.user

\* DELETE /api/messages/:messageId
deleteMessage(u, id) ==
  Arrive([HttpCall("delete", u) EXCEPT !.id = id])

\* The handler of the delete goes on: the message is read; the owner is
\* checked on the document read, isDeleted is set and deletedAt is built;
\* save() writes them; the answer.
deleteMessageResume(c) ==
  /\ c \in calls /\ c.kind = "delete"
  /\ CASE c.pc = "auth" ->
            /\ running
            /\ IF ~c.auth
               THEN Answer(c, Response(401, NoBody))
               ELSE IF ~IsValidObjectId(c.id)
               THEN Answer(c, Thrown("CastError"))
               ELSE Await(c, [c EXCEPT !.pc = "find", !.hit = c.id \in Ids,
                                 !.orig = IF c.id \in Ids THEN store[c.id] ELSE NoDoc])
            /\ UNCHANGED store
       [] c.pc = "find" ->
            LET doc == [c.orig EXCEPT !.isDeleted = TRUE, !.deletedAt = now]
            IN /\ running
               /\ IF ~c.hit
                  THEN Answer(c, Response(404, NoBody))
                  ELSE IF ~IsOwner(c)
                  THEN Answer(c, Response(403, NoBody))
                  ELSE Await(c, [c EXCEPT !.pc = "save", !.doc = doc,
                                          !.paths = Modified(c.orig, doc)])
               /\ UNCHANGED store
       [] c.pc = "save" ->
            /\ store' = SavePaths(store, c.id, c.doc, c.paths)
            /\ Await(c, [c EXCEPT !.pc = "answer"])
       [] c.pc = "answer" ->
            /\ Answer(c, Response(200, NoBody))
            /\ UNCHANGED store
       [] OTHER -> FALSE
  /\ UNCHANGED <<now, timers, users, socketVars, ops, running>>

\* Variant: a message of any age can be edited.
TooOld_Never(c) == FALSE

\* message.createdAt < twentyFourHoursAgo, on the document read, with the
\* Date the handler builds for the check.
TooOld(c) == c.orig.createdAt < now - EditWindow

\* Variant: the edit also puts the status back to 'sent'.
Edited_ResetsStatus(c) ==
  [c.orig EXCEPT !.content = Trim(c.content), !.editedAt = now,
                 !.messageType = DetectType(c.content), !.status = "sent"]

\* The assignments of the edit to the document read: content (trimmed by
\* the setter), editedAt = new Date(), and messageType detected again.
Edited(c) ==
  [c.orig EXCEPT !.content = Trim(c.content), !.editedAt = now,
                 !.messageType = DetectType(c.content)]

\* PUT /api/messages/:messageId
editMessage(u, id, content) ==
  Arrive([HttpCall("edit", u) EXCEPT !.id = id, !.content = content])

\* The handler of the edit goes on: the message is read; the owner and the
\* age are checked on the document read, content, editedAt and messageType
\* are set on it, and save() validates it; save() writes the modified
\* paths; populate resolves and the handler answers, or populate fails and
\* the edit stays written.
editMessageResume(c, ok) ==
  /\ c \in calls /\ c.kind = "edit"
  /\ CASE c.pc = "auth" ->
            /\ running /\ ok
            /\ IF ~c.auth
               THEN Answer(c, Response(401, NoBody))
               ELSE IF ~IsValidObjectId(c.id)
               THEN Answer(c, Thrown("CastError"))
               ELSE Await(c, [c EXCEPT !.pc = "find", !.hit = c.id \in Ids,
                                 !.orig = IF c.id \in Ids THEN store[c.id] ELSE NoDoc])
            /\ UNCHANGED store
       [] c.pc = "find" ->
            LET doc == Edited(c)
            IN /\ running /\ ok
               /\ IF ~c.hit
                  THEN Answer(c, Response(404, NoBody))
                  ELSE IF ~IsOwner(c)
                  THEN Answer(c, Response(403, NoBody))
                  ELSE IF TooOld(c)
                  THEN Answer(c, Response(400, NoBody))
                  ELSE IF ~SchemaValid(doc)
                  THEN Answer(c, Thrown("ValidationError"))
                  ELSE Await(c, [c EXCEPT !.pc = "save", !.doc = doc,
                                          !.paths = Modified(c.orig, doc)])
               /\ UNCHANGED store
       [] c.pc = "save" ->
            /\ ok
            /\ store' = SavePaths(store, c.id, c.doc, c.paths)
            /\ Await(c, [c EXCEPT !.pc = "populate"])
       [] c.pc = "populate" ->
            /\ Answer(c, IF ok THEN Response(200, [message |-> c.id])
                               ELSE Thrown("StoreError"))
            /\ UNCHANGED store
       [] OTHER -> FALSE
  /\ UNCHANGED <<now, timers, users, socketVars, ops, running>>

\* Variant: the copy keeps the sender of the original.
Forwarded_KeepsSender(c) ==
  NewDoc(c.orig.sender, CastId(c.peer), c.orig.content, c.orig.messageType)

\* The document of the forward: the forwarder as sender, the receiver asked
\* for, content and messageType of the original as read.
Forwarded(c) ==
  NewDoc(c.user, CastId(c.peer), c.orig.content, c.orig.messageType)

\* POST /api/messages/:messageId/forward
forwardMessage(u, messageId, receiverId) ==
  Arrive([HttpCall("forward", u) EXCEPT !.id = messageId, !.peer = receiverId])

\* The handler of the forward goes on: the original is read; the access of
\* the user to it is checked and the receiver is looked up; Message.create
\* is called with the forwarder as sender and the content and the type of
\* the original as read, and its pre-save hook arms the timer; then the
\* insert and the populate.
forwardMessageResume(c, ok) ==
  /\ c \in calls /\ c.kind = "forward"
  /\ CASE c.pc = "auth" ->
            /\ running /\ ok
            /\ IF ~c.auth
               THEN Answer(c, Response(401, NoBody))
               ELSE IF ~IsValidObjectId(c.id)
               THEN Answer(c, Thrown("CastError"))
               ELSE Await(c, [c EXCEPT !.pc = "find", !.hit = c.id \in Ids,
                                 !.orig = IF c.id \in Ids THEN store[c.id] ELSE NoDoc])
            /\ UNCHANGED <<store, timers>>
       [] c.pc = "find" ->
            /\ running /\ ok
            /\ IF ~c.hit
               THEN Answer(c, Response(404, NoBody))
               ELSE IF ~(c.orig.sender = c.user \/ c.orig.receiver = c.user)
               THEN Answer(c, Response(403, NoBody))
               ELSE IF ~IsValidObjectId(c.peer)
               THEN Answer(c, Thrown("CastError"))
               ELSE Await(c, [c EXCEPT !.pc = "receiver",
                                       !.hit2 = CastId(c.peer) \in Accounts])
            /\ UNCHANGED <<store, timers>>
       [] c.pc = "receiver" ->
            LET doc == Forwarded(c)
            IN /\ running /\ ok
               /\ IF ~c.hit2
                  THEN Answer(c, Response(404, NoBody)) /\ UNCHANGED timers
                  ELSE /\ Len(store) + Inserting < MaxMsgs
                       /\ Await(c, [c EXCEPT !.pc = "insert", !.doc = doc])
                       /\ timers' = timers \cup {ArmTimer(c.key, doc)}
               /\ UNCHANGED store
       [] OTHER -> Create(c, ok)
  /\ UNCHANGED <<now, users, socketVars, ops, running>>

\* ------------------------------------ accounts and contacts (auth, user and
\* ------------------------------------ contact controllers)
\* The password of a request: absent, wrong or right.
PasswordInputs == {"none", "wrong", "right"}

\* User.findOne({email}): the id of the account, 0 for none.  Emails are
\* unique.
FindByEmail(email) ==
  IF \E u \in Accounts : users[u].email = email
  THEN CHOOSE u \in Accounts : users[u].email = email
  ELSE 0

\* DELETE /api/users/account
deleteAccount(u, password) ==
  Arrive([HttpCall("account", u) EXCEPT !.pw = password])

\* The handler of the account deletion goes on: behind authenticateToken and
\* the check that a password is given, the user is read again; the password
\* is compared on the document read and User.findByIdAndDelete deletes the
\* document (messages, sockets and the registry are left as they are); the
\* answer.
deleteAccountResume(c) ==
  /\ c \in calls /\ c.kind = "account"
  /\ running
  /\ CASE c.pc = "auth" ->
            /\ IF ~c.auth
               THEN Answer(c, Response(401, NoBody))
               ELSE IF c.pw = "none"
               THEN Answer(c, Response(400, NoBody))
               ELSE Await(c, [c EXCEPT !.pc = "user", !.hit = c.user \in Accounts])
            /\ UNCHANGED users
       [] c.pc = "user" ->
            IF ~c.hit
            THEN Answer(c, Thrown("TypeError")) /\ UNCHANGED users
            ELSE IF c.pw = "wrong"
            THEN Answer(c, Response(401, NoBody)) /\ UNCHANGED users
            ELSE /\ users' = [users EXCEPT ![c.user] = Deleted]
                 /\ Await(c, [c EXCEPT !.pc = "answer"])
       [] c.pc = "answer" ->
            Answer(c, Response(200, NoBody)) /\ UNCHANGED users
       [] OTHER -> FALSE
  /\ UNCHANGED <<now, storeVars, socketVars, ops, running>>

\* POST /api/auth/register: the request arrives and the lookup of the email
\* is applied.
register(email) ==
  Arrive([HttpCall("register", 0) EXCEPT !.pc = "find", !.peer = email,
                                         !.hit = FindByEmail(email) # 0])

\* The handler of the registration goes on: User.create stores a new
\* account, unless one with the email exists by then; the verification token
\* is set on the document created and save() writes it, when the document
\* still exists; the welcome email is sent; it is delivered and the handler
\* answers, or it fails and the catch block takes the token off the document
\* and saves again; the answer.
registerResume(c, ok) ==
  /\ c \in calls /\ c.kind = "register"
  /\ running
  /\ CASE c.pc = "find" ->
            /\ ok
            /\ IF c.hit
               THEN Answer(c, Response(400, NoBody)) /\ UNCHANGED users
               ELSE IF FindByEmail(c.peer) # 0
               THEN Await(c, [c EXCEPT !.pc = "create", !.hit2 = FALSE]) /\ UNCHANGED users
               ELSE /\ NewUserId \notin DOMAIN users
                    /\ users' = [u \in DOMAIN users \cup {NewUserId} |->
                                   IF u = NewUserId THEN UserDoc(c.peer, <<>>) ELSE users[u]]
                    /\ Await(c, [c EXCEPT !.pc = "create", !.hit2 = TRUE,
                                          !.user = NewUserId])
       [] c.pc = "create" ->
            /\ ok
            /\ IF ~c.hit2
               THEN Answer(c, Thrown("MongoServerError"))
               ELSE Await(c, [c EXCEPT !.pc = "save", !.hit = c.user \in Accounts])
            /\ UNCHANGED users
       [] c.pc = "save" ->
            /\ ok
            /\ IF ~c.hit
               THEN Answer(c, Thrown("DocumentNotFoundError"))
               ELSE Await(c, [c EXCEPT !.pc = "email"])
            /\ UNCHANGED users
       [] c.pc = "email" ->
            /\ IF ok
               THEN Answer(c, Response(201, [user |-> c.user]))
               ELSE Await(c, [c EXCEPT !.pc = "cleanup", !.hit = c.user \in Accounts])
            /\ UNCHANGED users
       [] c.pc = "cleanup" ->
            /\ ok
            /\ Answer(c, IF c.hit THEN Response(201, [user |-> c.user])
                                  ELSE Thrown("DocumentNotFoundError"))
            /\ UNCHANGED users
       [] OTHER -> FALSE
  /\ UNCHANGED <<now, storeVars, socketVars, ops, running>>

\* POST /api/auth/login: the request arrives and the lookup of the email is
\* applied.
login(email, password) ==
  Arrive([HttpCall("login", FindByEmail(email)) EXCEPT
            !.pc = "find", !.pw = password,
            !.flag = FindByEmail(email) # 0 /\ users[FindByEmail(email)].isOnline])

\* The handler of the login goes on: the password is compared, isOnline and
\* lastSeen are set on the document read, and save() writes the modified
\* paths, when the document still exists; the answer.
loginResume(c) ==
  /\ c \in calls /\ c.kind = "login"
  /\ running
  /\ CASE c.pc = "find" ->
            IF ~c.auth \/ c.pw # "right"
            THEN Answer(c, Response(401, NoBody)) /\ UNCHANGED users
            ELSE /\ users' = IF c.user \in Accounts /\ ~c.flag
                             THEN [users EXCEPT ![c.user].isOnline = TRUE]
                             ELSE users
                 /\ Await(c, [c EXCEPT !.pc = "answer", !.hit = c.user \in Accounts])
       [] c.pc = "answer" ->
            /\ Answer(c, IF c.hit THEN Response(200, [user |-> c.user])
                                  ELSE Thrown("DocumentNotFoundError"))
            /\ UNCHANGED users
       [] OTHER -> FALSE
  /\ UNCHANGED <<now, storeVars, socketVars, ops, running>>

\* User.findByIdAndUpdate(id, {isOnline: b}) on the collection.
SetOnline(u, b) ==
  IF u \in Accounts THEN [users EXCEPT ![u].isOnline = b] ELSE users

\* POST /api/auth/logout
logout(u) ==
  Arrive(HttpCall("logout", u))

\* The handler of the logout goes on: the update of isOnline; the answer.
logoutResume(c) ==
  /\ c \in calls /\ c.kind = "logout"
  /\ running
  /\ CASE c.pc = "auth" ->
            IF ~c.auth
            THEN Answer(c, Response(401, NoBody)) /\ UNCHANGED users
            ELSE /\ users' = SetOnline(c.user, FALSE)
                 /\ Await(c, [c EXCEPT !.pc = "answer"])
       [] c.pc = "answer" ->
            Answer(c, Response(200, NoBody)) /\ UNCHANGED users
       [] OTHER -> FALSE
  /\ UNCHANGED <<now, storeVars, socketVars, ops, running>>

\* PUT /api/users/status with isOnline b
updateOnlineStatus(u, b) ==
  Arrive([HttpCall("online", u) EXCEPT !.flag = b])

\* The handler of the status update goes on: the update of isOnline, which
\* gives the document or null; the answer reads the document.
updateOnlineStatusResume(c) ==
  /\ c \in calls /\ c.kind = "online"
  /\ running
  /\ CASE c.pc = "auth" ->
            IF ~c.auth
            THEN Answer(c, Response(401, NoBody)) /\ UNCHANGED users
            ELSE /\ users' = SetOnline(c.user, c.flag)
                 /\ Await(c, [c EXCEPT !.pc = "answer", !.hit = c.user \in Accounts])
       [] c.pc = "answer" ->
            /\ Answer(c, IF c.hit THEN Response(200, [isOnline |-> c.flag])
                                  ELSE Thrown("TypeError"))
            /\ UNCHANGED users
       [] OTHER -> FALSE
  /\ UNCHANGED <<now, storeVars, socketVars, ops, running>>

\* POST /api/contacts with userId as given
addContact(u, userId) ==
  Arrive([HttpCall("add", u) EXCEPT !.peer = userId])

\* The handler of the add goes on: behind validateContact, the id is
\* compared to the user's own as a string and the other user is looked up;
\* the user's own document is read; the contacts read are searched for the
\* id as a string, the entry is pushed and save() appends it and increments
\* the version; the answer.
addContactResume(c) ==
  /\ c \in calls /\ c.kind = "add"
  /\ running
  /\ CASE c.pc = "auth" ->
            /\ IF ~c.auth
               THEN Answer(c, Response(401, NoBody))
               ELSE IF ~IsValidObjectId(c.peer)             \* validateContact
               THEN Answer(c, Response(400, NoBody))
               ELSE IF c.peer = c.user
               THEN Answer(c, Response(400, NoBody))
               ELSE Await(c, [c EXCEPT !.pc = "target",
                                       !.hit = CastId(c.peer) \in Accounts])
            /\ UNCHANGED users
       [] c.pc = "target" ->
            /\ IF ~c.hit
               THEN Answer(c, Response(404, NoBody))
               ELSE Await(c, [c EXCEPT !.pc = "user", !.hit2 = c.user \in Accounts,
                       !.list = IF c.user \in Accounts THEN users[c.user].contacts
                                                       ELSE <<>>])
            /\ UNCHANGED users
       [] c.pc = "user" ->
            IF ~c.hit2
            THEN Answer(c, Thrown("TypeError")) /\ UNCHANGED users
            ELSE IF \E k \in DOMAIN c.list : c.list[k] = c.peer
            THEN Answer(c, Response(400, NoBody)) /\ UNCHANGED users
            ELSE /\ users' = IF c.user \in Accounts
                             THEN [users EXCEPT
                                     ![c.user].contacts = Append(@, CastId(c.peer)),
                                     ![c.user].v = @ + 1]
                             ELSE users
                 /\ Await(c, [c EXCEPT !.pc = "answer", !.hit = c.user \in Accounts])
       [] c.pc = "answer" ->
            /\ Answer(c, IF c.hit THEN Response(201, [contact |-> CastId(c.peer)])
                                  ELSE Thrown("VersionError"))
            /\ UNCHANGED users
       [] OTHER -> FALSE
  /\ UNCHANGED <<now, storeVars, socketVars, ops, running>>

\* Array.prototype.splice(k, 1)
Splice(seq, k) == [i \in 1..(Len(seq) - 1) |-> IF i < k THEN seq[i] ELSE seq[i + 1]]

\* DELETE /api/contacts/:userId
removeContact(u, userId) ==
  Arrive([HttpCall("remove", u) EXCEPT !.peer = userId])

\* The handler of the remove goes on: the user's own document is read; the
\* first entry with the id as a string is spliced out of the contacts read
\* and save() writes the whole array, when the version is still the one
\* read; the answer.
removeContactResume(c) ==
  /\ c \in calls /\ c.kind = "remove"
  /\ running
  /\ CASE c.pc = "auth" ->
            /\ IF ~c.auth
               THEN Answer(c, Response(401, NoBody))
               ELSE Await(c, [c EXCEPT !.pc = "user", !.hit2 = c.user \in Accounts,
                       !.list = IF c.user \in Accounts THEN users[c.user].contacts
                                                       ELSE <<>>,
                       !.v = IF c.user \in Accounts THEN users[c.user].v ELSE 0])
            /\ UNCHANGED users
       [] c.pc = "user" ->
            LET hits  == {k \in DOMAIN c.list : c.list[k] = c.peer}
                index == CHOOSE k \in hits : \A j \in hits : k <= j
                fresh == c.user \in Accounts /\ users[c.user].v = c.v
            IN IF ~c.hit2
               THEN Answer(c, Thrown("TypeError")) /\ UNCHANGED users
               ELSE IF hits = {}
               THEN Answer(c, Response(404, NoBody)) /\ UNCHANGED users
               ELSE /\ users' = IF fresh
                                THEN [users EXCEPT
                                        ![c.user].contacts = Splice(c.list, index),
                                        ![c.user].v = @ + 1]
                                ELSE users
                    /\ Await(c, [c EXCEPT !.pc = "answer", !.hit = fresh])
       [] c.pc = "answer" ->
            /\ Answer(c, IF c.hit THEN Response(200, NoBody)
                                  ELSE Thrown("VersionError"))
            /\ UNCHANGED users
       [] OTHER -> FALSE
  /\ UNCHANGED <<now, storeVars, socketVars, ops, running>>

\* --------------------------------------------------- gateway (socketHandler.js)
\* socket.handshake.auth.token: absent, not verifiable, or a signed token
\* carrying a user id.
NoToken == [kind |-> "none", id |-> 0]
Tokens  == {NoToken, [kind |-> "invalid", id |-> 0]}
             \cup [kind : {"valid"}, id : Users \cup {NoUserId}]

\* User.findByIdWithContacts(u): the user's document with the user of every
\* contact populated, null for a contact that has no document; or null.
NoContacts == [hit |-> FALSE, list |-> <<>>]
findByIdWithContacts(u) ==
  IF u \notin Accounts THEN NoContacts
  ELSE [hit  |-> TRUE,
        list |-> [k \in DOMAIN users[u].contacts |->
                    [user  |-> users[u].contacts[k],
                     found |-> users[u].contacts[k] \in Accounts]]]

Event(type, c, room, id, text) ==
  [type |-> type, conn |-> c, room |-> room, id |-> id, text |-> text]

ErrorEvent(c, text) == Event("error", c, SocketRoom(c), 0, text)

\* contacts.forEach(contact => io.to(contact.user._id.toString()).emit(type))
\* on what findByIdWithContacts gave: nothing for null; an event to the room
\* of each contact, in order (id is the contact's place), up to the first one
\* that has no document, where contact.user._id throws.
Throws(read) == \E k \in DOMAIN read.list : ~read.list[k].found
Notified(type, c, read) ==
  {Event(type, c, UserRoom(read.list[k].user), k, "") :
     k \in {j \in DOMAIN read.list : \A i \in 1..j : read.list[i].found}}

\* The sockets a broadcast to `room` reaches: the open members of the room.
Members(room) == {c \in Conns : conn[c].open /\ room \in conn[c].rooms}

\* Variant of Authenticate without the lookup of the user: any verifiable
\* token passes.
Authenticate_NoUserCheck(tok, found) ==
  /\ tok.kind # "none"
  /\ tok.kind = "valid"

\* io.use: the authentication middleware, with what its lookup of the user
\* gave.  TRUE when next() is called without an error.
Authenticate(tok, found) ==
  /\ tok.kind # "none"            \* 'No token provided'
  /\ tok.kind = "valid"           \* jwt.verify throws: 'Invalid token'
  /\ found                        \* 'User not found'

\* A client opens a connection.  The middleware refuses a token that is
\* absent or not verifiable; for one it verifies, its lookup of the user is
\* applied.
Connect(c, tok) ==
  /\ Request
  /\ conn[c].st = "idle"
  /\ \A d \in Conns : d < c => conn[d].st # "idle"
  /\ conn' = [conn EXCEPT ![c] =
                [@ EXCEPT !.st = IF Authenticate(tok, TRUE) THEN "auth" ELSE "refused",
                          !.token = tok, !.user = tok.id,
                          !.found = tok.id \in Accounts]]
  /\ out' = {}
  /\ UNCHANGED <<now, calls, storeVars, users, activeUsers, tasks, observed, running>>

\* The connection goes on.  The middleware ends: the connection is refused,
\* or the connection handler starts, which records the socket in activeUsers
\* and updates the user's online status; the update is applied; the socket
\* joins the user's room and the contacts are asked for; they are read;
\* userOnline goes to the contacts and the event handlers, the disconnect
\* handler among them, are registered.  On a failure the catch block reports
\* it and no event handler is ever registered.
ConnectResume(c, ok) ==
  /\ c \in Conns
  /\ CASE conn[c].st = "auth" ->
            /\ running /\ ok
            /\ IF Authenticate(conn[c].token, conn[c].found)
               THEN /\ conn' = [conn EXCEPT ![c].st = "online", ![c].open = TRUE,
                                            ![c].rooms = {SocketRoom(c)}]
                    /\ activeUsers' = [activeUsers EXCEPT ![conn[c].user] = c]
               ELSE /\ conn' = [conn EXCEPT ![c].st = "refused"]
                    /\ UNCHANGED activeUsers
            /\ out' = {}
            /\ UNCHANGED users
       [] conn[c].st = "online" ->
            /\ IF ok
               THEN /\ users' = SetOnline(conn[c].user, TRUE)
                    /\ conn' = [conn EXCEPT ![c].st = IF running THEN "join" ELSE "closed"]
                    /\ out' = {}
               ELSE /\ running
                    /\ conn' = [conn EXCEPT ![c].st = "failed"]
                    /\ out' = {ErrorEvent(c, "Connection setup failed")}
                    /\ UNCHANGED users
            /\ UNCHANGED activeUsers
       [] conn[c].st = "join" ->
            /\ running /\ ok
            /\ conn' = [conn EXCEPT ![c].st = "contacts",
                                    ![c].rooms = @ \cup {UserRoom(conn[c].user)}]
            /\ out' = {}
            /\ UNCHANGED <<users, activeUsers>>
       [] conn[c].st = "contacts" ->
            /\ running
            /\ IF ok
               THEN /\ conn' = [conn EXCEPT ![c].st = "notify",
                                  ![c].read = findByIdWithContacts(conn[c].user)]
                    /\ out' = {}
               ELSE /\ conn' = [conn EXCEPT ![c].st = "failed"]
                    /\ out' = {ErrorEvent(c, "Connection setup failed")}
            /\ UNCHANGED <<users, activeUsers>>
       [] conn[c].st = "notify" ->
            /\ running /\ ok
            /\ IF Throws(conn[c].read)
               THEN /\ conn' = [conn EXCEPT ![c].st = "failed"]
                    /\ out' = Notified("userOnline", c, conn[c].read)
                                \cup {ErrorEvent(c, "Connection setup failed")}
               ELSE /\ conn' = [conn EXCEPT ![c].st = "active"]
                    /\ out' = Notified("userOnline", c, conn[c].read)
            /\ UNCHANGED <<users, activeUsers>>
       [] OTHER -> FALSE
  /\ UNCHANGED <<now, calls, storeVars, tasks, observed, ops, running>>

\* The transport closes.  While the middleware waits, the connection is
\* given up.  Later the socket leaves its rooms, and a registered disconnect
\* handler runs: it deletes the user's registry entry and updates the online
\* status.  Before the handlers are registered nothing listens.
Disconnect(c) ==
  /\ Request
  /\ conn[c].open \/ conn[c].st = "auth"
  /\ IF conn[c].st = "active"
     THEN /\ conn' = [conn EXCEPT ![c].open = FALSE, ![c].rooms = {},
                                  ![c].st = "offline"]
          /\ activeUsers' = [activeUsers EXCEPT ![conn[c].user] = None]
     ELSE /\ conn' = [conn EXCEPT ![c].open = FALSE, ![c].rooms = {},
                                  ![c].st = IF @ = "auth" THEN "aborted" ELSE @]
          /\ UNCHANGED activeUsers
  /\ out' = {}
  /\ UNCHANGED <<now, calls, storeVars, users, tasks, observed, running>>

\* The disconnect handler goes on: the update of isOnline is applied; the
\* contacts are read; userOffline goes to the contacts.  Its catch block
\* only logs.
DisconnectResume(c, ok) ==
  /\ c \in Conns
  /\ CASE conn[c].st = "offline" ->
            IF ok
            THEN /\ users' = SetOnline(conn[c].user, FALSE)
                 /\ conn' = [conn EXCEPT ![c].st = IF running THEN "offline2"
                                                                ELSE "closed"]
            ELSE /\ running
                 /\ conn' = [conn EXCEPT ![c].st = "closed"]
                 /\ UNCHANGED users
       [] conn[c].st = "offline2" ->
            /\ running
            /\ conn' = IF ok
                       THEN [conn EXCEPT ![c].st = "offline3",
                               ![c].read = findByIdWithContacts(conn[c].user)]
                       ELSE [conn EXCEPT ![c].st = "closed"]
            /\ UNCHANGED users
       [] conn[c].st = "offline3" ->
            /\ running /\ ok
            /\ conn' = [conn EXCEPT ![c].st = "closed"]
            /\ UNCHANGED users
       [] OTHER -> FALSE
  /\ out' = IF conn[c].st = "offline3"
            THEN Notified("userOffline", c, conn[c].read) ELSE {}
  /\ UNCHANGED <<now, calls, storeVars, activeUsers, tasks, observed, ops, running>>

\* ------------------------------------------------------ socket event handlers
\* A handler in flight: its socket, the event's peer id as received, the
\* await it is suspended at (pc), and what it holds: the Date it has built
\* (at), what the event carries (content, mt, replyTo), the result of its
\* lookup (hit), the message document and its id once stored (send), the ids
\* of the peer's messages that had status 'sent' when the handler began
\* (join), the contacts read (status).
Task(kind, c, pc, peer) ==
  [kind |-> kind, key |-> NewKey, conn |-> c, pc |-> pc, peer |-> peer,
   at |-> now, content |-> <<>>, mt |-> "omitted", replyTo |-> None,
   hit |-> FALSE, doc |-> NoDoc, id |-> 0, snap |-> {}, read |-> NoContacts]

Listening(c) == conn[c].st = "active" /\ conn[c].open

\* An event arrives at a socket whose handlers are registered, and its
\* handler starts.
Spawn(t) ==
  /\ Cardinality(tasks) < MaxTasks
  /\ tasks' = tasks \cup {t}
  /\ out' = {}

\* The handler ends with what it emits; it goes on to its next await.
Finish(t, events) ==
  /\ running
  /\ tasks' = tasks \ {t}
  /\ out' = events
Goto(t, d) ==
  /\ tasks' = IF running THEN (tasks \ {t}) \cup {d} ELSE tasks \ {t}
  /\ out' = {}

\* Variant of JoinConversation that builds the key from the peer's id alone.
JoinConversation_PeerKey(c, receiverId) ==
  /\ Request
  /\ Listening(c)
  /\ LET userId == conn[c].user
         conversationId == generateConversationId(receiverId, receiverId)
         kept == {room \in conn[c].rooms :
                    ~(room # SocketRoom(c) /\ room # UserRoom(userId))}
         snap == {i \in Ids : /\ store[i].sender = CastId(receiverId)
                              /\ store[i].receiver = userId
                              /\ store[i].status = "sent"}
     IN IF ~IsValidObjectId(receiverId)
        THEN /\ out' = {ErrorEvent(c, "Invalid receiver ID")}
             /\ UNCHANGED <<conn, tasks>>
        ELSE /\ conn' = [conn EXCEPT ![c].rooms = kept \cup {conversationId}]
             /\ Spawn([Task("join", c, "update", receiverId) EXCEPT !.snap = snap])
  /\ UNCHANGED <<now, calls, storeVars, users, activeUsers, observed, running>>

\* socket.on('joinConversation'), up to the await: the socket leaves the
\* rooms it joined before, joins the room of the conversation, and calls
\* Message.markAsDelivered, which builds deliveredAt.
JoinConversation(c, receiverId) ==
  /\ Request
  /\ Listening(c)
  /\ LET userId == conn[c].user
         conversationId == generateConversationId(userId, receiverId)
         kept == {room \in conn[c].rooms :
                    ~(room # SocketRoom(c) /\ room # UserRoom(userId))}
         snap == {i \in Ids : /\ store[i].sender = CastId(receiverId)
                              /\ store[i].receiver = userId
                              /\ store[i].status = "sent"}
     IN IF ~IsValidObjectId(receiverId)
        THEN /\ out' = {ErrorEvent(c, "Invalid receiver ID")}
             /\ UNCHANGED <<conn, tasks>>
        ELSE /\ conn' = [conn EXCEPT ![c].rooms = kept \cup {conversationId}]
             /\ Spawn([Task("join", c, "update", receiverId) EXCEPT !.snap = snap])
  /\ UNCHANGED <<now, calls, storeVars, users, activeUsers, observed, running>>

\* Variant of JoinConversationResume that does not await the update: the
\* handler goes on to the reply while the store is as it was.
JoinConversationResume_NoUpdate(t, ok) ==
  /\ t \in tasks /\ t.kind = "join"
  /\ CASE t.pc = "update" /\ ok ->
            /\ Goto(t, [t EXCEPT !.pc = "reply"])
            /\ UNCHANGED store
       [] t.pc = "update" /\ ~ok ->
            /\ Finish(t, {ErrorEvent(t.conn, "Failed to join conversation")})
            /\ UNCHANGED store
       [] t.pc = "reply" ->
            /\ ok
            /\ Finish(t, {Event("conversationJoined", t.conn,
                             generateConversationId(conn[t.conn].user, t.peer), 0, "")})
            /\ UNCHANGED store
       [] OTHER -> FALSE
  /\ UNCHANGED <<now, calls, timers, users, conn, activeUsers, observed, ops, running>>

\* The handler of joinConversation goes on: the updateMany of
\* markAsDelivered is applied, or fails and the catch block reports it; then
\* socket.emit('conversationJoined').
JoinConversationResume(t, ok) ==
  /\ t \in tasks /\ t.kind = "join"
  /\ CASE t.pc = "update" /\ ok ->
            /\ store' = markAsDeliveredOn(store, CastId(t.peer), conn[t.conn].user, t.at)
            /\ Goto(t, [t EXCEPT !.pc = "reply"])
       [] t.pc = "update" /\ ~ok ->
            /\ Finish(t, {ErrorEvent(t.conn, "Failed to join conversation")})
            /\ UNCHANGED store
       [] t.pc = "reply" ->
            /\ ok
            /\ Finish(t, {Event("conversationJoined", t.conn,
                             generateConversationId(conn[t.conn].user, t.peer), 0, "")})
            /\ UNCHANGED store
       [] OTHER -> FALSE
  /\ UNCHANGED <<now, calls, timers, users, conn, activeUsers, observed, ops, running>>

\* socket.on('sendMessage'), up to the await: the input checks and the call
\* of User.findById.
SendMessage(c, receiverId, content, mt, replyTo) ==
  /\ Request
  /\ Listening(c)
  /\ LET err == CASE ~IsValidObjectId(receiverId) -> "Invalid receiver ID"
                  [] Trim(content) = <<>> -> "Message content is required"
                  [] JsLength(content) > MaxContentLen -> "Message too long"
                  [] OTHER -> ""
     IN IF err # ""
        THEN /\ out' = {ErrorEvent(c, err)}
             /\ UNCHANGED tasks
        ELSE Spawn([Task("send", c, "lookup", receiverId) EXCEPT
                      !.content = content, !.mt = mt, !.replyTo = replyTo])
  /\ UNCHANGED <<now, calls, storeVars, users, conn, activeUsers, observed, running>>

\* The condition of the messageNotification: the registry has an entry under
\* the receiver id as received, and that socket is not in the room.
NotifyReceiver(receiverId, conversationId) ==
  /\ receiverId \in UserIds
  /\ activeUsers[receiverId] # None
  /\ activeUsers[receiverId] \notin {c \in Conns : conversationId \in conn[c].rooms}

\* Variant: the catch block also broadcasts the message.
SendFailure_Broadcasts(t) ==
  {ErrorEvent(t.conn, "Failed to send message"),
   Event("newMessage", t.conn,
         generateConversationId(conn[t.conn].user, t.peer), Len(store) + 1, "")}

\* What the catch block of sendMessage emits.
SendFailure(t) == {ErrorEvent(t.conn, "Failed to send message")}

\* The handler of sendMessage goes on, whether its socket is still open or
\* not: the lookup of the receiver is applied; without a receiver it reports
\* it; else it builds the document, save() validates and stamps it and the
\* pre-save hook arms the timer; the insert is applied and the timer refers
\* to the stored document, or it fails, the catch block reports it and the
\* timer stays armed with the unsaved document; populate resolves and
\* newMessage goes to the conversation room and, under NotifyReceiver,
\* messageNotification to the room named by the receiver id, or populate
\* fails, the catch block reports it and the message stays stored.
SendMessageResume(t, ok) ==
  /\ t \in tasks /\ t.kind = "send"
  /\ LET userId == conn[t.conn].user
         conversationId == generateConversationId(userId, t.peer)
         typ == IF t.mt = "omitted" THEN "text" ELSE t.mt
         doc == [NewDoc(userId, CastId(t.peer), Trim(t.content), typ) EXCEPT
                   !.replyTo = t.replyTo]
     IN CASE t.pc = "lookup" ->
               /\ ok
               /\ Goto(t, [t EXCEPT !.pc = "receiver",
                                    !.hit = CastId(t.peer) \in Accounts])
               /\ UNCHANGED <<store, timers, observed>>
          [] t.pc = "receiver" ->
               /\ ok
               /\ IF ~t.hit
                  THEN /\ Finish(t, {ErrorEvent(t.conn, "Receiver not found")})
                       /\ UNCHANGED timers
                  ELSE IF ~SchemaValid(doc)
                  THEN /\ Finish(t, SendFailure(t))
                       /\ UNCHANGED timers
                  ELSE /\ running
                       /\ Len(store) + Inserting < MaxMsgs
                       /\ Goto(t, [t EXCEPT !.pc = "insert", !.doc = doc])
                       /\ timers' = timers \cup {ArmTimer(t.key, doc)}
               /\ UNCHANGED <<store, observed>>
          [] t.pc = "insert" /\ ok ->
               /\ Len(store) < MaxMsgs
               /\ store' = Append(store, t.doc)
               /\ timers' = TimersStored(t.key, Len(store) + 1)
               /\ Goto(t, [t EXCEPT !.pc = "populate", !.id = Len(store) + 1])
               /\ UNCHANGED observed
          [] t.pc = "insert" /\ ~ok ->
               /\ (\E a \in timers : a.key = t.key) => Cardinality(Unsaved) < MaxUnsaved
               /\ timers' = TimersFailed(t.key)
               /\ Finish(t, SendFailure(t))
               /\ UNCHANGED <<store, observed>>
          [] t.pc = "populate" /\ ok ->
               /\ Finish(t, {Event("newMessage", t.conn, conversationId, t.id, "")} \cup
                            (IF NotifyReceiver(t.peer, conversationId)
                             THEN {Event("messageNotification", t.conn,
                                         UserRoom(t.peer), t.id, "")}
                             ELSE {}))
               /\ observed' = [c \in Conns |->
                                 IF c \in Members(conversationId)
                                 THEN Append(observed[c],
                                             [id |-> t.id, room |-> conversationId])
                                 ELSE observed[c]]
               /\ UNCHANGED <<store, timers>>
          [] t.pc = "populate" /\ ~ok ->
               /\ Finish(t, SendFailure(t))
               /\ UNCHANGED <<store, timers, observed>>
          [] OTHER -> FALSE
  /\ UNCHANGED <<now, calls, users, conn, activeUsers, ops, running>>

\* socket.on('markAsRead'), up to the await: the id checks and the call of
\* Message.markAsRead, which builds readAt.
MarkAsRead(c, messageId, senderId) ==
  /\ Request
  /\ Listening(c)
  /\ IF ~IsValidObjectId(messageId) \/ ~IsValidObjectId(senderId)
     THEN /\ out' = {ErrorEvent(c, "Invalid message or sender ID")}
          /\ UNCHANGED tasks
     ELSE Spawn(Task("read", c, "update", senderId))
  /\ UNCHANGED <<now, calls, storeVars, users, conn, activeUsers, observed, running>>

\* Variant: the catch block also emits the read receipt.
ReadFailure_EmitsReceipt(t) ==
  {ErrorEvent(t.conn, "Failed to mark message as read"),
   Event("messageRead", t.conn,
         generateConversationId(conn[t.conn].user, t.peer), 0, "")}

\* What the catch block of markAsRead emits.
ReadFailure(t) == {ErrorEvent(t.conn, "Failed to mark message as read")}

\* The handler of markAsRead goes on: the updateMany is applied, or fails
\* and the catch block reports it; then
\* socket.to(conversationId).emit('messageRead').
MarkAsReadResume(t, ok) ==
  /\ t \in tasks /\ t.kind = "read"
  /\ CASE t.pc = "update" /\ ok ->
            /\ store' = markAsReadOn(store, CastId(t.peer), conn[t.conn].user, t.at)
            /\ Goto(t, [t EXCEPT !.pc = "emit"])
       [] t.pc = "update" /\ ~ok ->
            /\ Finish(t, ReadFailure(t))
            /\ UNCHANGED store
       [] t.pc = "emit" ->
            /\ ok
            /\ Finish(t, {Event("messageRead", t.conn,
                             generateConversationId(conn[t.conn].user, t.peer), 0, "")})
            /\ UNCHANGED store
       [] OTHER -> FALSE
  /\ UNCHANGED <<now, calls, timers, users, conn, activeUsers, observed, ops, running>>

\* socket.on('typing'): the indicator goes to the other sockets of the
\* conversation room; a malformed id is ignored without a word.
Typing(c, receiverId, isTyping) ==
  /\ Request
  /\ Listening(c)
  /\ out' = IF ~IsValidObjectId(receiverId)
            THEN {}
            ELSE {Event("typingIndicator", c,
                        generateConversationId(conn[c].user, receiverId), 0,
                        IF isTyping THEN "typing" ELSE "idle")}
  /\ UNCHANGED <<now, calls, storeVars, users, socketVars, running>>

\* The status texts tried.  The text goes to the user's profile, which no
\* operation here reads.
MaxStatusLen == 139
StatusInputs == {<<>>, <<Run("a", 1)>>, <<Run("a", MaxStatusLen + 1)>>}

\* Variant: a rejected status text also closes the connection.
UpdateStatus_ClosesOnInvalid(c, status) ==
  /\ Request
  /\ Listening(c)
  /\ IF status = <<>> \/ JsLength(status) > MaxStatusLen
     THEN /\ out' = {ErrorEvent(c, "Invalid status")}
          /\ conn' = [conn EXCEPT ![c].open = FALSE]
          /\ UNCHANGED tasks
     ELSE /\ Spawn(Task("status", c, "update", 0))
          /\ UNCHANGED conn
  /\ UNCHANGED <<now, calls, storeVars, users, activeUsers, observed, running>>

\* socket.on('updateStatus'), up to the await.
UpdateStatus(c, status) ==
  /\ Request
  /\ Listening(c)
  /\ IF status = <<>> \/ JsLength(status) > MaxStatusLen
     THEN /\ out' = {ErrorEvent(c, "Invalid status")}
          /\ UNCHANGED tasks
     ELSE /\ Spawn(Task("status", c, "update", 0))
  /\ UNCHANGED <<now, calls, storeVars, users, conn, activeUsers, observed, running>>

\* The handler of updateStatus goes on: the update of the status text has
\* resolved and the contacts are read, or one of the two failed and the
\* catch block reports it; then statusUpdate goes to the contacts.
UpdateStatusResume(t, ok) ==
  /\ t \in tasks /\ t.kind = "status"
  /\ CASE t.pc = "update" /\ ok ->
            Goto(t, [t EXCEPT !.pc = "notify",
                              !.read = findByIdWithContacts(conn[t.conn].user)])
       [] t.pc = "update" /\ ~ok ->
            Finish(t, {ErrorEvent(t.conn, "Failed to update status")})
       [] t.pc = "notify" ->
            /\ ok
            /\ Finish(t, Notified("statusUpdate", t.conn, t.read) \cup
                         (IF Throws(t.read)
                          THEN {ErrorEvent(t.conn, "Failed to update status")}
                          ELSE {}))
       [] OTHER -> FALSE
  /\ UNCHANGED <<now, calls, storeVars, users, conn, activeUsers, observed, ops, running>>

\* ------------------------------------------------------------ specification
\* Two accounts exist; the first has the second among its contacts.
Init ==
  /\ now = 1
  /\ store = <<>>
  /\ timers = {}
  /\ users = [u \in Users |-> UserDoc(u, IF u = 1 THEN <<2>> ELSE <<>>)]
  /\ conn = [c \in Conns |-> [st |-> "idle", open |-> FALSE, token |-> NoToken,
                               user |-> 0, rooms |-> {}, found |-> FALSE,
                               read |-> NoContacts]]
  /\ activeUsers = [u \in UserIds |-> None]
  /\ tasks = {}
  /\ calls = {}
  /\ out = {}
  /\ observed = [c \in Conns |-> <<>>]
  /\ ops = 0
  /\ running = TRUE

\* The clock and the timers.
NextTime ==
  \/ Tick
  \/ \E t \in timers : TimerFire(t)
  \/ \E t \in timers, ok \in BOOLEAN : TimerSaved(t, ok)

\* The ids a client of the two users sends: its own, the other's, and the
\* other's in upper case.
PeerInputs == {1, 2, 12}

\* The socket gateway and the timers, interleaved: connections of the two
\* users whose setup succeeds, joins, sends of a plain content and
\* mark-as-read events, with inserts and updates that fail.
Next ==
  \/ NextTime
  \/ \E c \in Conns, tok \in {NoToken} \cup [kind : {"valid"}, id : Users] : Connect(c, tok)
  \/ \E c \in Conns : ConnectResume(c, TRUE)
  \/ \E c \in Conns : Disconnect(c)
  \/ \E c \in Conns : DisconnectResume(c, TRUE)
  \/ \E c \in Conns, r \in PeerInputs : JoinConversation(c, r)
  \/ \E t \in tasks : JoinConversationResume(t, TRUE)
  \/ \E c \in Conns, r \in Users : SendMessage(c, r, PlainContent, "omitted", None)
  \/ \E t \in tasks, ok \in BOOLEAN : SendMessageResume(t, ok)
  \/ \E c \in Conns, r \in PeerInputs : MarkAsRead(c, 1, r)
  \/ \E t \in tasks, ok \in BOOLEAN : MarkAsReadResume(t, ok)

Spec == Init /\ [][Next]_vars

\* ---- the gateway alone, with every socket event, ids and tokens of every
\* ---- kind, and setups, updates, inserts and populates that fail
NextGateway ==
  \/ \E c \in Conns, tok \in Tokens : Connect(c, tok)
  \/ \E c \in Conns, ok \in BOOLEAN : ConnectResume(c, ok)
  \/ \E c \in Conns : Disconnect(c)
  \/ \E c \in Conns, ok \in BOOLEAN : DisconnectResume(c, ok)
  \/ \E c \in Conns, r \in RawIds : JoinConversation(c, r)
  \/ \E t \in tasks, ok \in BOOLEAN : JoinConversationResume(t, ok)
  \/ \E c \in Conns, i \in SendInputs :
       SendMessage(c, i.receiverId, i.content, i.messageType, None)
  \/ \E t \in tasks, ok \in BOOLEAN : SendMessageResume(t, ok)
  \/ \E c \in Conns, m \in {0, 1}, r \in RawIds : MarkAsRead(c, m, r)
  \/ \E t \in tasks, ok \in BOOLEAN : MarkAsReadResume(t, ok)
  \/ \E c \in Conns, s \in StatusInputs : UpdateStatus(c, s)
  \/ \E t \in tasks, ok \in BOOLEAN : UpdateStatusResume(t, ok)
  \/ \E c \in Conns, r \in RawIds, b \in BOOLEAN : Typing(c, r, b)

GatewaySpec == Init /\ [][NextGateway]_vars

\* ---- the creates: over HTTP, by a forward and over the socket, with
\* ---- contents of every kind
EmojiOnly  == <<Run("E", 1)>>
ManyEmoji  == <<Run("E", EmojiMaxLen \div 2 + 1)>>
Mixed      == <<Run("a", 1), Run("E", 1)>>
LongEmoji  == <<Run("E", MaxContentLen \div 2 + 1)>>
TwoLetters == <<Run("a", 2)>>
WriteContents == ContentInputs \cup {EmojiOnly, ManyEmoji, Mixed, LongEmoji}

\* The create requests tried: a plain content for the ids of every kind,
\* every content for user 2, and an emoji sent as text, alone and as a reply
\* to the first message.
WriteInputs ==
  [receiverId : {0, 2, NoUserId, 12}, content : {PlainContent},
   messageType : {"omitted"}, replyTo : {None}]
    \cup [receiverId : {2}, content : WriteContents, messageType : {"omitted"},
          replyTo : {None}]
    \cup [receiverId : {2}, content : {EmojiOnly}, messageType : {"text"},
          replyTo : {None, 1}]

\* User 1 creates over HTTP and over its sockets, user 2 forwards.
NextCreate ==
  \/ NextTime
  \/ \E i \in WriteInputs :
       ops < MaxCreateOps /\ sendMessage(1, i.receiverId, i.content, i.messageType, i.replyTo)
  \/ \E c \in calls : sendMessageResume(c, TRUE)
  \/ \E i \in MsgIdInputs, r \in Users : ops < MaxCreateOps /\ forwardMessage(2, i, r)
  \/ \E c \in calls : forwardMessageResume(c, TRUE)
  \/ \E c \in Conns : ops < MaxCreateOps /\ Connect(c, [kind |-> "valid", id |-> 1])
  \/ \E c \in Conns : ConnectResume(c, TRUE)
  \/ \E c \in Conns, i \in WriteInputs :
       ops < MaxCreateOps /\ SendMessage(c, i.receiverId, i.content, i.messageType, i.replyTo)
  \/ \E t \in tasks : SendMessageResume(t, TRUE)

CreateSpec == Init /\ [][NextCreate]_vars

\* ---- the writes of the HTTP API: create, edit, delete and forward, with
\* ---- inserts and populates that fail
\* The creates tried: user 1 to itself and to user 2, and user 2 to itself
\* in reply to the first message.
ReplyInputs ==
  {[u |-> 1, r |-> 1, re |-> None], [u |-> 1, r |-> 2, re |-> None],
   [u |-> 2, r |-> 2, re |-> 1]}

NextMessage ==
  \/ NextTime
  \/ \E i \in ReplyInputs :
       ops < MaxWriteOps /\ sendMessage(i.u, i.r, PlainContent, "omitted", i.re)
  \/ \E c \in calls, ok \in BOOLEAN : sendMessageResume(c, ok)
  \/ \E u \in Users, i \in MsgIdInputs : ops < MaxWriteOps /\ deleteMessage(u, i)
  \/ \E c \in calls : deleteMessageResume(c)
  \/ \E u \in Users, i \in MsgIdInputs : ops < MaxWriteOps /\ editMessage(u, i, EmojiOnly)
  \/ \E c \in calls : editMessageResume(c, TRUE)
  \/ \E i \in MsgIdInputs, r \in {0, 1, NoUserId} : ops < MaxWriteOps /\ forwardMessage(2, i, r)
  \/ \E c \in calls, ok \in BOOLEAN : forwardMessageResume(c, ok)

MessageSpec == Init /\ [][NextMessage]_vars

\* ---- the life of a message over more than a day: create, read, edit,
\* ---- delete, get
EditInputs == {TwoLetters, LongContent}

\* Both users write to user 2, who reads.
NextStore ==
  \/ NextTime
  \/ Day
  \/ \E u \in Users :
       ops < MaxStoreOps /\ sendMessage(u, 2, PlainContent, "omitted", None)
  \/ \E c \in calls : sendMessageResume(c, TRUE)
  \/ \E r \in {0, 1, 11} : ops < MaxStoreOps /\ markAsReadHttp(2, r)
  \/ \E c \in calls : markAsReadHttpResume(c)
  \/ \E u \in Users, i \in MsgIdInputs : ops < MaxStoreOps /\ deleteMessage(u, i)
  \/ \E c \in calls : deleteMessageResume(c)
  \/ \E u \in Users, i \in MsgIdInputs, c \in EditInputs : ops < MaxStoreOps /\ editMessage(u, i, c)
  \/ \E c \in calls : editMessageResume(c, TRUE)
  \/ \E u \in Users, i \in MsgIdInputs : ops < MaxStoreOps /\ getMessage(u, i)
  \/ \E c \in calls : getMessageResume(c)
  \/ ops < MaxStoreOps /\ getUnreadCountHttp(2)
  \/ \E c \in calls : getUnreadCountResume(c)

StoreSpec == Init /\ [][NextStore]_vars

\* ---- the queries of the HTTP API, next to creates and deletes
QueryIds     == {0, 2, NoUserId}
QueryInputs  == {TwoLetters, <<Run("A", 2)>>, <<Run("a", 1)>>, <<Run("a", MaxQueryLen + 1)>>}
PageInputs   == {DefaultPage, DefaultPage + 1}
LimitInputs(default) == {1, default}

\* The creates and the fetches tried: both users write to the other, user 2
\* also to itself and a second content; user 1 fetches with every id, page
\* and limit, user 2 the first page of its conversation with user 1.
QuerySends ==
  {[u |-> 2, r |-> 1, c |-> PlainContent], [u |-> 2, r |-> 1, c |-> TwoLetters],
   [u |-> 2, r |-> 2, c |-> PlainContent], [u |-> 1, r |-> 2, c |-> PlainContent]}
QueryFetches ==
  [u : {1}, r : QueryIds, p : PageInputs, l : LimitInputs(ConversationLimit)]
    \cup [u : {2}, r : {1}, p : {DefaultPage}, l : {ConversationLimit}]

NextQueries ==
  \/ NextTime
  \/ \E i \in QuerySends : ops < MaxQueryOps /\ sendMessage(i.u, i.r, i.c, "omitted", None)
  \/ \E c \in calls : sendMessageResume(c, TRUE)
  \/ \E u \in Users, i \in MsgIdInputs : ops < MaxQueryOps /\ deleteMessage(u, i)
  \/ \E c \in calls : deleteMessageResume(c)
  \/ \E i \in QueryFetches : ops < MaxQueryOps /\ getConversationHttp(i.u, i.r, i.p, i.l)
  \/ \E c \in calls : getConversationResume(c)
  \/ \E q \in QueryInputs, p \in PageInputs :
       ops < MaxQueryOps /\ searchMessages(1, 2, q, p, 1)
  \/ \E c \in calls : searchMessagesResume(c)
  \/ \E u \in Users, l \in LimitInputs(LatestLimit) : ops < MaxQueryOps /\ getConversations(u, l)
  \/ \E c \in calls, ok \in BOOLEAN : getConversationsResume(c, ok)
  \/ ops < MaxQueryOps /\ getUnreadCountHttp(1)
  \/ \E c \in calls : getUnreadCountResume(c)

QuerySpec == Init /\ [][NextQueries]_vars

\* ---- the HTTP API with accounts that are deleted.  The requests carry the
\* ---- token of an account that exists or has existed.
NextAccount ==
  \/ NextTime
  \/ \E u \in DOMAIN users, r \in Users :
       ops < MaxAccountOps /\ sendMessage(u, r, PlainContent, "omitted", None)
  \/ \E c \in calls : sendMessageResume(c, TRUE)
  \/ \E u \in DOMAIN users, r \in Users : ops < MaxAccountOps /\ markAsReadHttp(u, r)
  \/ \E c \in calls : markAsReadHttpResume(c)
  \/ \E u \in DOMAIN users, i \in MsgIdInputs : ops < MaxAccountOps /\ getMessage(u, i)
  \/ \E c \in calls : getMessageResume(c)
  \/ \E u \in DOMAIN users, pw \in PasswordInputs : ops < MaxAccountOps /\ deleteAccount(u, pw)
  \/ \E c \in calls : deleteAccountResume(c)
  \/ \E u \in DOMAIN users, l \in LimitInputs(LatestLimit) : ops < MaxAccountOps /\ getConversations(u, l)
  \/ \E c \in calls, ok \in BOOLEAN : getConversationsResume(c, ok)
  \/ \E u \in DOMAIN users : ops < MaxAccountOps /\ getUnreadCountHttp(u)
  \/ \E c \in calls : getUnreadCountResume(c)

AccountSpec == Init /\ [][NextAccount]_vars

\* ---- accounts, contacts and presence: connections, status updates and
\* ---- sends to user 2 next to registration, login, logout, contacts and
\* ---- account deletion
EmailInputs == {1, NewUserId}

NextPresence ==
  \/ \E e \in EmailInputs : ops < MaxPresenceOps /\ register(e)
  \/ \E c \in calls, ok \in BOOLEAN : registerResume(c, ok)
  \/ \E e \in EmailInputs, pw \in PasswordInputs \ {"none"} : ops < MaxPresenceOps /\ login(e, pw)
  \/ \E c \in calls : loginResume(c)
  \/ \E u \in DOMAIN users : ops < MaxPresenceOps /\ logout(u)
  \/ \E c \in calls : logoutResume(c)
  \/ \E u \in DOMAIN users, b \in BOOLEAN : ops < MaxPresenceOps /\ updateOnlineStatus(u, b)
  \/ \E c \in calls : updateOnlineStatusResume(c)
  \/ \E u \in DOMAIN users, r \in RawIds : ops < MaxPresenceOps /\ addContact(u, r)
  \/ \E c \in calls : addContactResume(c)
  \/ \E u \in DOMAIN users, r \in RawIds : ops < MaxPresenceOps /\ removeContact(u, r)
  \/ \E c \in calls : removeContactResume(c)
  \/ \E u \in DOMAIN users, pw \in PasswordInputs : ops < MaxPresenceOps /\ deleteAccount(u, pw)
  \/ \E c \in calls : deleteAccountResume(c)
  \/ \E c \in Conns, tok \in Tokens \cup [kind : {"valid"}, id : DOMAIN users] :
       ops < MaxPresenceOps /\ Connect(c, tok)
  \/ \E c \in Conns, ok \in BOOLEAN : ConnectResume(c, ok)
  \/ \E c \in Conns : ops < MaxPresenceOps /\ Disconnect(c)
  \/ \E c \in Conns, ok \in BOOLEAN : DisconnectResume(c, ok)
  \/ \E c \in Conns : ops < MaxPresenceOps /\ UpdateStatus(c, <<Run("a", 1)>>)
  \/ \E t \in tasks, ok \in BOOLEAN : UpdateStatusResume(t, ok)
  \/ \E c \in Conns :
       ops < MaxPresenceOps /\ SendMessage(c, 2, PlainContent, "omitted", None)
  \/ \E t \in tasks : SendMessageResume(t, TRUE)

PresenceSpec == Init /\ [][NextPresence]_vars

\* ===================================================================== claims
\* The connection has passed, or is passing, the authentication middleware.
IsUser(c) == conn[c].st \notin {"idle", "refused", "aborted"}

\* The conversation rooms of a socket: its rooms besides its own socket room
\* and its personal user room.
ConvRooms(c) == conn[c].rooms \ {SocketRoom(c), UserRoom(conn[c].user)}

\* In this step the handler c of an HTTP request goes on from the await
\* `pc`; CallNext(c) is the handler afterwards, when it has not ended.
CallGoes(c, pc) == c \in calls /\ c.pc = pc /\ c \notin calls' /\ running' = running
CallNext(c) == {d \in calls' : d.key = c.key}

\* The same for the handler t of a socket event.
TaskGoes(t, pc) == t \in tasks /\ t.pc = pc /\ t \notin tasks' /\ running' = running
TaskNext(t) == {d \in tasks' : d.key = t.key}

\* C1: the stored status of a message never moves backwards in the order
\* sent < delivered < read, whatever step is taken.
C1_StatusNeverRegresses ==
  [][\A i \in Ids : StatusRank(store'[i].status) >= StatusRank(store[i].status)]_vars

\* C2: a newMessage or messageNotification names a message that is already
\* stored; a send handler whose insert is rejected emits the error event to
\* its socket and nothing else.
C2_Committed ==
  \A e \in out : e.type \in {"newMessage", "messageNotification"} => e.id \in Ids

C2_SaveRejected(t) ==
  /\ t.kind = "send" /\ TaskGoes(t, "insert")
  /\ Len(store') = Len(store)

C2_BroadcastOnlyAfterCommit ==
  /\ []C2_Committed
  /\ [][\A t \in tasks :
          C2_SaveRejected(t) => out' = {ErrorEvent(t.conn, "Failed to send message")}]_vars

\* C2 witness: an insert was rejected (its timer holds the unsaved document,
\* the store is empty) and the step emitted the error.
C2_Witness ==
  /\ Unsaved # {}
  /\ store = <<>>
  /\ \E c \in Conns : out = {ErrorEvent(c, "Failed to send message")}

\* C3: a connection receives the newMessage events of one conversation room
\* in the order in which the messages were stored.
C3_BroadcastInPersistenceOrder ==
  \A c \in Conns : \A i, j \in 1..Len(observed[c]) :
    (i < j /\ observed[c][i].room = observed[c][j].room)
      => observed[c][i].id < observed[c][j].id

\* C4: while the socket registered for a user stays open, the user's registry
\* entry stays that socket, or becomes a socket that opens in the step, and
\* the stored isOnline stays true.
C4_Registered(c) ==
  /\ IsUser(c) /\ conn[c].open
  /\ activeUsers[conn[c].user] = c

C4_LastWriterWins ==
  [][\A c \in Conns :
       (C4_Registered(c) /\ conn'[c].open) =>
         LET u == conn[c].user
         IN /\ \/ activeUsers'[u] = c
               \/ /\ activeUsers'[u] \in Conns
                  /\ ~conn[activeUsers'[u]].open
                  /\ conn'[activeUsers'[u]].open
            /\ (u \in Accounts /\ users[u].isOnline)
                 => (u \in DOMAIN users' /\ users'[u].isOnline)]_vars

\* C5: while the server runs, once a closed connection of a user has no
\* handler left to run, the registry holds no entry with its handle, and the
\* user is stored offline unless another connection of the user is open.
C5_Settled(c) ==
  /\ running
  /\ IsUser(c) /\ ~conn[c].open
  /\ conn[c].st \in {"active", "failed", "closed"}
  /\ \A t \in tasks : t.conn # c

C5_ClosedIsDeregistered ==
  \A c \in Conns :
    C5_Settled(c) =>
      LET u == conn[c].user
      IN /\ activeUsers[u] # c
         /\ (\A d \in Conns : ~(IsUser(d) /\ conn[d].user = u /\ conn[d].open))
              => (u \in Accounts => ~users[u].isOnline)

\* C6: when a send handler broadcasts the message it stored for receiver P,
\* it emits messageNotification to P's user room exactly when the registry
\* has a socket for P and that socket is not in the room of {sender, P}.
C6_Expected(t) ==
  LET P == t.doc.receiver
      key == generateConversationId(t.doc.sender, P)
  IN /\ activeUsers[P] # None
     /\ key \notin conn[activeUsers[P]].rooms

C6_Broadcasts(t) ==
  /\ t.kind = "send" /\ TaskGoes(t, "populate")
  /\ \E e \in out' : e.type = "newMessage" /\ e.id = t.id

C6_NotificationIff ==
  [][\A t \in tasks :
       C6_Broadcasts(t) =>
         (Event("messageNotification", t.conn, UserRoom(t.doc.receiver), t.id, "") \in out'
            <=> C6_Expected(t))]_vars

\* C7: a connection whose token is absent, unverifiable or names no user
\* that the lookup of the middleware finds is refused: it never gets a
\* registry entry, a room or a handler, it emits nothing, and refusing it
\* changes neither the registry nor the users collection, and emits nothing.
C7_Credential(c) == conn[c].token.kind = "valid" /\ conn[c].found

C7_NoSession(c) ==
  /\ conn[c].st \in {"auth", "refused", "aborted", "closed"}
  /\ ~conn[c].open
  /\ conn[c].rooms = {}
  /\ \A u \in UserIds : activeUsers[u] # c
  /\ \A t \in tasks : t.conn # c
  /\ \A e \in out : e.conn # c

C7_NoSessionWithoutCredential ==
  /\ [](\A c \in Conns :
          (conn[c].st # "idle" /\ ~C7_Credential(c)) => C7_NoSession(c))
  /\ [][\A c \in Conns :
          (conn[c].st # "refused" /\ conn'[c].st = "refused") =>
            /\ activeUsers' = activeUsers
            /\ users' = users
            /\ out' = {}]_vars

\* C7 witness: a connection with a signed token of a user that does not
\* exist has been refused, while a user is stored online.
C7_Witness ==
  /\ \E c \in Conns : /\ conn[c].st = "refused" /\ conn[c].token.kind = "valid"
                      /\ ~conn[c].found
  /\ \E u \in Accounts : users[u].isOnline

\* C8: a socket is in at most one conversation room, and a joinConversation
\* with a well-formed id leaves it in exactly the room of the canonical key
\* of the pair: generateConversationId of its user's id and the id of the
\* peer, each in its canonical spelling.
C8_AtMostOneRoom ==
  \A c \in Conns : Cardinality(ConvRooms(c)) <= 1

C8_Joins(t) ==
  /\ t.kind = "join"
  /\ t.key \notin {s.key : s \in tasks}
  /\ ops' = ops + 1

C8_OneConversationRoom ==
  /\ []C8_AtMostOneRoom
  /\ [][\A t \in tasks' :
          C8_Joins(t) =>
            conn'[t.conn].rooms \ {SocketRoom(t.conn), UserRoom(conn[t.conn].user)}
              = {generateConversationId(conn[t.conn].user, CastId(t.peer))}]_vars

\* The join handler t replies with conversationJoined in this step.
C9_Replies(t) ==
  /\ t.kind = "join" /\ TaskGoes(t, "reply")
  /\ \E e \in out' : e.type = "conversationJoined" /\ e.conn = t.conn

\* C9 as claimed: when the join handler replies, every message of the peer
\* that had status sent when the join began is delivered or read and has
\* deliveredAt set.
C9_Original ==
  [][\A t \in tasks :
       C9_Replies(t) =>
         \A i \in t.snap : /\ store[i].status \in {"delivered", "read"}
                           /\ store[i].deliveredAt # None]_vars

\* C9 as amended: when the join handler replies, every such message is
\* delivered with deliveredAt set, or read.
C9_DeliveredBeforeReply ==
  [][\A t \in tasks :
       C9_Replies(t) =>
         \A i \in t.snap : \/ /\ store[i].status = "delivered"
                              /\ store[i].deliveredAt # None
                           \/ store[i].status = "read"]_vars

\* C9 witness: a join handler is about to reply and the messages it found
\* sent are delivered.
C9_Witness ==
  \E t \in tasks :
    /\ t.kind = "join" /\ t.pc = "reply" /\ t.snap # {}
    /\ \A i \in t.snap : store[i].status = "delivered"

\* C10: a messageRead event is emitted only by a mark-as-read handler that
\* has gone on from its update, and it goes on only in the step in which the
\* update is applied; a handler whose update fails ends without emitting it.
C10_ReadReceiptAfterCommit ==
  [][/\ \A e \in out' :
          e.type = "messageRead" =>
            \E t \in tasks : /\ t.kind = "read" /\ TaskGoes(t, "emit")
                             /\ t.conn = e.conn
     /\ \A t \in tasks :
          (t.kind = "read" /\ TaskGoes(t, "update")) =>
            /\ \A e \in out' : e.type # "messageRead"
            /\ \A d \in TaskNext(t) :
                 /\ d.pc = "emit"
                 /\ store' = markAsReadOn(store, CastId(t.peer), conn[t.conn].user,
                                          t.at)]_vars

\* C10 witness: a messageRead was emitted and a message it covers is stored
\* as read.
C10_Witness ==
  \E e \in out :
    /\ e.type = "messageRead"
    /\ \E i \in Ids : /\ store[i].receiver = conn[e.conn].user
                      /\ store[i].status = "read" /\ store[i].readAt # None

\* C11: when the mark-as-read handler of reader R emits messageRead, every
\* other open, authenticated connection of the sender named by the event
\* receives it.
C11_Emits(t) ==
  /\ t.kind = "read" /\ TaskGoes(t, "emit")
  /\ \E e \in out' : e.type = "messageRead"

C11_SenderGetsReceipt ==
  [][\A t \in tasks :
       C11_Emits(t) =>
         \A d \in Conns :
           (d # t.conn /\ IsUser(d) /\ conn[d].open /\ conn[d].user = CastId(t.peer))
             => d \in Members(generateConversationId(conn[t.conn].user, t.peer))]_vars

\* C12: a socket event handler that rejects an event (it emits an error
\* event to its own connection, or drops a typing event with a malformed id)
\* leaves the connection as it was, open and Active, and leaves the registry
\* of active users as it was.
C12_Rejects(c) ==
  \/ \E e \in out' : e.type = "error" /\ e.conn = c
  \/ \E r \in RawIds, b \in BOOLEAN : ~IsValidObjectId(r) /\ Typing(c, r, b)

C12_FailureKeepsConnection ==
  [][\A c \in Conns :
       (Listening(c) /\ C12_Rejects(c))
         => /\ conn'[c] = conn[c]
            /\ activeUsers' = activeUsers]_vars

C12_Witness ==
  \E c \in Conns :
    /\ Listening(c)
    /\ activeUsers[conn[c].user] = c
    /\ out = {ErrorEvent(c, "Invalid status")}

\* C13: on any collection the program can hold and for any pair, a second
\* markAsRead run right after a first one (at a later time, nothing stored in
\* between) modifies no message and leaves the collection, with the readAt
\* values of the first call, as it is.
C13_First(s, r) == markAsReadOn(store, s, r, now)

C13_SecondReadIsNoOp ==
  \A s, r \in Users :
    /\ ModifiedCount(C13_First(s, r), s, r) = 0
    /\ markAsReadOn(C13_First(s, r), s, r, now + 1) = C13_First(s, r)

C13_Witness ==
  \E s, r \in Users : \E i \in Ids :
    /\ ModifiedCount(store, s, r) > 0
    /\ store[i].sender = s /\ store[i].receiver = r
    /\ store[i].readAt = None
    /\ C13_First(s, r)[i].readAt = now

\* C14: on any collection the program can hold and for any pair,
\* markAsDelivered followed by markAsRead gives every message the status that
\* markAsRead alone gives it, which is read for the messages of the pair; and
\* markAsDelivered leaves a message that is delivered or read as it is.
C14_Delivered(s, r) == markAsDeliveredOn(store, s, r, now)

C14_DeliveredThenRead ==
  \A s, r \in Users : \A i \in Ids :
    /\ markAsReadOn(C14_Delivered(s, r), s, r, now + 1)[i].status
         = markAsReadOn(store, s, r, now + 1)[i].status
    /\ (store[i].sender = s /\ store[i].receiver = r)
         => markAsReadOn(C14_Delivered(s, r), s, r, now + 1)[i].status = "read"
    /\ store[i].status \in {"delivered", "read"}
         => C14_Delivered(s, r)[i] = store[i]

C14_Witness ==
  \E s, r \in Users : \E i, j \in Ids :
    /\ store[i].sender = s /\ store[i].receiver = r
    /\ store[j].sender = s /\ store[j].receiver = r
    /\ store[i].status = "sent"
    /\ store[j].status \in {"delivered", "read"}
    /\ C14_Delivered(s, r)[i].status = "delivered"

\* C15: a deliveredAt or readAt that is set is never given another value.
C15_TimestampsSetOnce ==
  [][\A i \in Ids :
       /\ store[i].deliveredAt # None => store'[i].deliveredAt = store[i].deliveredAt
       /\ store[i].readAt # None => store'[i].readAt = store[i].readAt]_vars

\* C16: when the save of a delete is applied to a message that is already
\* soft-deleted, the store stays as it is.
C16_DeleteIdempotent ==
  [][\A c \in calls :
       (c.kind = "delete" /\ CallGoes(c, "save") /\ store[c.id].isDeleted)
         => store' = store]_vars

\* C17: no query of a read path returns or counts a deleted message.  The
\* find of a conversation fetch and of a search returns only messages of the
\* pair with isDeleted false, and their counts count at most these; the unread
\* count counts at most the user's unread messages with isDeleted false; in
\* the conversation list every lastMessage has isDeleted false and every
\* unreadCount counts at most the unread messages from that participant with
\* isDeleted false.
C17_Visible(a, b) == {i \in Ids : Between(store[i], a, b) /\ ~store[i].isDeleted}

C17_Unread(S) == Cardinality({i \in S : store[i].status # "read" /\ ~store[i].isDeleted})

C17_Listed(messages, a, b) ==
  \A k \in DOMAIN messages : messages[k] \in C17_Visible(a, b)

C17_Entry(u, e) ==
  /\ ~store[e.lastMessage].isDeleted
  /\ e.unreadCount <= C17_Unread({i \in Ids : /\ store[i].sender = e.participant
                                              /\ store[i].receiver = u})

C17_DeletedStaysHidden ==
  [][\A c \in calls : \A d \in CallNext(c) :
       /\ (c.kind \in {"conv", "search"} /\ CallGoes(c, "user"))
            => C17_Listed(d.found, c.user, CastId(c.peer))
       /\ (c.kind \in {"conv", "search"} /\ CallGoes(c, "find"))
            => d.total <= Cardinality(C17_Visible(c.user, CastId(c.peer)))
       /\ (c.kind = "unread" /\ CallGoes(c, "auth"))
            => d.total <= C17_Unread({i \in Ids : store[i].receiver = c.user})
       /\ (c.kind = "list" /\ CallGoes(c, "auth"))
            => \A k \in DOMAIN d.found : C17_Entry(c.user, d.found[k])]_vars

\* A message is deleted and unread, and the answer of a read path is empty:
\* no message listed, none counted.
C17_Witness ==
  /\ Len(store) = 1
  /\ store[1].isDeleted /\ store[1].status # "read"
  /\ \E e \in out :
       /\ e.type = "response" /\ e.code = 200
       /\ \/ e.body = [unreadCount |-> 0]
          \/ e.body = [conversations |-> <<>>]
          \/ "messages" \in DOMAIN e.body /\ e.body.messages = <<>>
                /\ e.body.pagination.totalResults = 0

\* C18: no step removes a message or changes its sender or receiver; a
\* deleted message stays deleted with deletedAt set and keeps its content;
\* and a participant who asks for a message that is deleted when it is read
\* gets it, with isDeleted true and deletedAt set.
C18_Kept(i) ==
  /\ i \in DOMAIN store'
  /\ store'[i].sender = store[i].sender
  /\ store'[i].receiver = store[i].receiver

C18_DeletedKept(i) ==
  store[i].isDeleted
    => /\ store'[i].isDeleted
       /\ store'[i].deletedAt # None
       /\ store'[i].content = store[i].content

C18_Retrievable(c) ==
  (/\ c.kind = "get" /\ CallGoes(c, "populate")
   /\ c.doc.isDeleted
   /\ c.user \in {c.doc.sender, c.doc.receiver})
    => \E e \in out' : /\ e.type = "response" /\ e.code = 200
                        /\ e.body.message = c.id
                        /\ e.body.doc.isDeleted
                        /\ e.body.doc.deletedAt # None

C18_NeverRemoved ==
  [][/\ \A i \in Ids : C18_Kept(i) /\ C18_DeletedKept(i)
     /\ \A c \in calls : C18_Retrievable(c)]_vars

\* C19: an edit or a delete reads the message as it is stored; when the user
\* who asks is not the sender of the message, it is answered with 403, leaves
\* the store as it is and ends.
C19_OnlySenderChanges ==
  [][\A c \in calls : c.kind \in {"edit", "delete"} =>
       /\ CallGoes(c, "auth") => \A d \in CallNext(c) : d.hit => d.orig = store[c.id]
       /\ (CallGoes(c, "find") /\ c.hit /\ c.orig.sender # c.user)
            => /\ out' = {Response(403, NoBody)}
               /\ store' = store
               /\ CallNext(c) = {}]_vars

\* The one message stored has a receiver who is not its sender, and a request
\* has just been answered with 403 (every user is a participant of the
\* message, so it was an edit or a delete).
C19_Witness ==
  /\ out = {Response(403, NoBody)}
  /\ Len(store) = 1
  /\ \E i \in Ids : store[i].receiver # store[i].sender /\ ~store[i].isDeleted
                        /\ store[i].editedAt = None

\* C20: an edit asked by the sender of a message that is, when the handler
\* checks it, more than 24 hours older than createdAt is answered with 400,
\* changes nothing and ends; within 24 hours, with a content the schema
\* accepts, it goes on to its save; the save stores the paths it has
\* modified, and the edit is answered with 200.
C20_Edit(c) ==
  [c.orig EXCEPT !.content = Trim(c.content), !.editedAt = now,
                 !.messageType = DetectType(c.content)]

C20_EditWindow ==
  [][\A c \in calls : c.kind = "edit" =>
       /\ (CallGoes(c, "find") /\ c.hit /\ c.orig.sender = c.user) =>
            IF now - c.orig.createdAt > EditWindow
            THEN /\ out' = {Response(400, NoBody)}
                 /\ store' = store
                 /\ CallNext(c) = {}
            ELSE SchemaValid(C20_Edit(c))
                   => \E d \in CallNext(c) : /\ d.pc = "save"
                                             /\ d.doc.content = Trim(c.content)
       /\ CallGoes(c, "save") => \A p \in c.paths : store'[c.id][p] = c.doc[p]
       /\ CallGoes(c, "populate") => out' = {Response(200, [message |-> c.id])}]_vars

\* The one message stored is more than 24 hours old and unedited, and a
\* request has just been answered with 400.
C20_Witness ==
  /\ out = {Response(400, NoBody)}
  /\ Len(store) = 1
  /\ now - store[1].createdAt > EditWindow
  /\ store[1].editedAt = None

\* C21: the save of an edit leaves every other message as it is and leaves
\* every field of the edited message other than content, messageType and
\* editedAt (sender, receiver, status, deliveredAt, readAt, isDeleted,
\* deletedAt, replyTo, createdAt) as it is stored by then.
C21_EditChangesOnly ==
  [][\A c \in calls :
       (c.kind = "edit" /\ CallGoes(c, "save"))
         => store' = [store EXCEPT ![c.id].content = store'[c.id].content,
                                   ![c.id].messageType = store'[c.id].messageType,
                                   ![c.id].editedAt = store'[c.id].editedAt]]_vars

\* Two messages are stored; one has been delivered and has just been edited
\* to another content.
C21_Witness ==
  /\ Len(store) = 2
  /\ \E i \in Ids :
       /\ out = {Response(200, [message |-> i])}
       /\ store[i].editedAt # None
       /\ store[i].status = "delivered"
       /\ store[i].deliveredAt # None
       /\ store[i].content = EmojiOnly /\ store[i].messageType = "emoji"

\* C22: a step in which the insert of a create is applied (of a POST create,
\* of a forward, or of a socket sendMessage) adds one message, and that
\* message has status sent, isDeleted false, and deliveredAt, readAt and
\* deletedAt null.
C22_Succeeds ==
  /\ Len(store') # Len(store)
  /\ \/ \E c \in calls : c.kind \in {"send", "forward"} /\ CallGoes(c, "insert")
     \/ \E t \in tasks : t.kind = "send" /\ TaskGoes(t, "insert")

C22_Fresh(doc) ==
  /\ doc.status = "sent"
  /\ ~doc.isDeleted
  /\ doc.deliveredAt = None
  /\ doc.readAt = None
  /\ doc.deletedAt = None

C22_CreatedAsSent ==
  [][C22_Succeeds
       => /\ Len(store') = Len(store) + 1
          /\ SubSeq(store', 1, Len(store)) = store
          /\ C22_Fresh(store'[Len(store')])]_vars

\* The first message came over the socket and its handler has stored it; the
\* second has just been created over HTTP, next to it.
C22_Witness ==
  /\ Len(store) = 2
  /\ \E t \in tasks : t.kind = "send" /\ t.pc = "populate" /\ t.id = 1
  /\ out = {Response(201, [message |-> 2])}
  /\ C22_Fresh(store[2])

\* C23: a create whose content is empty after trim or longer than 1000
\* characters is answered with 400 (an error event on the socket), and one
\* whose receiver the lookup does not find with 404 (an error event); and a
\* create that is so rejected stores no message, changes no message, leaves
\* no timer and ends.
C23_BadContent(content) == Characters(Trim(content)) \notin 1..MaxContentLen

C23_Nothing ==
  /\ store' = store
  /\ timers' = timers

C23_Refused == \E e \in out' : e.type = "response" /\ e.code \in {400, 404}

\* What the claim says of the handler c of an HTTP create.
C23_Http(c) ==
  /\ (CallGoes(c, "auth") /\ c.auth /\ C23_BadContent(c.content))
       => out' = {Response(400, NoBody)}
  /\ (CallGoes(c, "receiver") /\ ~c.hit)
       => out' = {Response(404, NoBody)}
  /\ ((CallGoes(c, "auth") \/ CallGoes(c, "receiver")) /\ C23_Refused)
       => C23_Nothing /\ CallNext(c) = {}

\* What the claim says of the socket create of connection c with input i,
\* and of its handler t once the lookup of the receiver has answered.
C23_Socket(c, i) ==
  /\ C23_BadContent(i.content)
       => \E e \in out' : e.type = "error" /\ e.conn = c
  /\ (\E e \in out' : e.type = "error")
       => C23_Nothing /\ tasks' = tasks /\ calls' = calls

C23_SocketReceiver(t) ==
  (t.kind = "send" /\ TaskGoes(t, "receiver") /\ ~t.hit)
    => /\ out' = {ErrorEvent(t.conn, "Receiver not found")}
       /\ C23_Nothing
       /\ TaskNext(t) = {}

C23_RejectedStoresNothing ==
  [][/\ \A c \in calls : c.kind = "send" => C23_Http(c)
     /\ \A t \in tasks : C23_SocketReceiver(t)
     /\ ops' = ops + 1 =>
          \A c \in Conns, i \in WriteInputs :
            SendMessage(c, i.receiverId, i.content, i.messageType, i.replyTo)
              => C23_Socket(c, i)]_vars

\* A message is stored and a create has just been refused with 400 (in these
\* runs only a create is answered with 400).
C23_Witness ==
  /\ Len(store) = 1
  /\ out = {Response(400, NoBody)}

\* C24: when a message is created over HTTP without a messageType, the
\* document handed to the insert has messageType emoji exactly when the
\* trimmed content consists of emoji characters only and is at most 10 long,
\* and text otherwise.
C24_AllEmoji(content) ==
  /\ content # <<>>
  /\ \A k \in 1..Len(content) : content[k].ch = "E"

C24_Expected(content) ==
  IF C24_AllEmoji(Trim(content)) /\ JsLength(Trim(content)) <= EmojiMaxLen
  THEN "emoji" ELSE "text"

C24_EmojiOnlyIsEmoji ==
  [][\A c \in calls :
       (c.kind = "send" /\ c.mt = "omitted" /\ CallGoes(c, "receiver"))
         => \A d \in CallNext(c) : d.doc.messageType = C24_Expected(c.content)]_vars

\* C25: on every collection, for every two different users A and B, page
\* and limit, whatever getConversation(A, B, page, limit) returns and whatever
\* getConversation(B, A, page, limit) returns are the same messages in the
\* same order.
C25_SameBothWays ==
  \A a, b \in Users, p \in PageInputs, l \in LimitInputs(ConversationLimit) :
    a # b =>
      \A r1 \in getConversation(store, a, b, p, l) :
        \A r2 \in getConversation(store, b, a, p, l) : r1 = r2

\* C26: the conversation endpoint lists the messages its find returned in
\* the order they were created (ids are in creation order), oldest first; and
\* when the pair has at most `limit` messages that are not deleted, the find
\* of page 1 returns all of them.
C26_Pair(c) == ConversationIds(store, c.user, CastId(c.peer))

C26_OldestFirst ==
  [][\A c \in calls : c.kind = "conv" =>
       /\ CallGoes(c, "user") =>
            \A d \in CallNext(c) :
              (c.page = DefaultPage /\ Cardinality(C26_Pair(c)) <= c.limit)
                => {d.found[k] : k \in DOMAIN d.found} = C26_Pair(c)
       /\ CallGoes(c, "answer") =>
            \A e \in out' :
              /\ {e.body.messages[k] : k \in DOMAIN e.body.messages}
                   = {c.found[k] : k \in DOMAIN c.found}
              /\ \A j, k \in DOMAIN e.body.messages :
                   j < k => e.body.messages[j] < e.body.messages[k]]_vars

\* C27: for a pair with N messages that are not deleted, the find of the
\* conversation endpoint asked for page p with limit L returns
\* min(L, max(0, N - (p-1)*L)) messages and its count returns N; the answer
\* lists the messages found and reports totalResults = the count, totalPages
\* = ceil(count / L), hasNextPage exactly when p < totalPages and hasPrevPage
\* exactly when p > 1.
C27_Min(a, b) == IF a < b THEN a ELSE b
C27_Max(a, b) == IF a < b THEN b ELSE a
C27_Ceil(n, l) == IF n % l = 0 THEN n \div l ELSE n \div l + 1

C27_N(c) ==
  Cardinality({i \in Ids : /\ Between(store[i], c.user, CastId(c.peer))
                           /\ ~store[i].isDeleted})

C27_Meta(e, n, p, l) ==
  /\ e.body.pagination.totalResults = n
  /\ e.body.pagination.totalPages = C27_Ceil(n, l)
  /\ e.body.pagination.hasNextPage = (p < C27_Ceil(n, l))
  /\ e.body.pagination.hasPrevPage = (p > 1)

C27_PageCounts ==
  [][\A c \in calls : c.kind = "conv" =>
       /\ CallGoes(c, "user") =>
            \A d \in CallNext(c) :
              Len(d.found) = C27_Min(c.limit, C27_Max(0, C27_N(c) - (c.page - 1) * c.limit))
       /\ CallGoes(c, "find") =>
            \A d \in CallNext(c) : d.total = C27_N(c)
       /\ CallGoes(c, "answer") =>
            \A e \in out' : /\ Len(e.body.messages) = Len(c.found)
                            /\ C27_Meta(e, c.total, c.page, c.limit)]_vars

\* Two messages are stored and the second page of one message each has just
\* been listed; the fetch has marked a message read.
C27_Witness ==
  /\ Len(store) = 2
  /\ \E i \in Ids : store[i].status = "read" /\ store[i].readAt # None
  /\ \E e \in out :
       /\ e.type = "response" /\ e.code = 200 /\ "messages" \in DOMAIN e.body
       /\ Len(e.body.messages) = 1
       /\ e.body.pagination = [currentPage |-> 2, totalPages |-> 2, totalResults |-> 2,
                               hasNextPage |-> FALSE, hasPrevPage |-> TRUE]

\* C28: the count of the unread-count endpoint for U is the number of
\* messages with receiver U, a status other than read and isDeleted false,
\* and is what the endpoint answers; and when the update of markAsRead(S, U)
\* run by PUT /read/S is applied, no message from S to U counts as unread and
\* the unread messages from every other sender to U are what they were.
C28_UnreadFrom(st, s, u) ==
  {i \in DOMAIN st : /\ st[i].sender = s /\ st[i].receiver = u
                     /\ st[i].status # "read" /\ ~st[i].isDeleted}

C28_Unread(st, u) == UNION {C28_UnreadFrom(st, s, u) : s \in Users}

C28_UnreadCount ==
  [][\A c \in calls :
       /\ (c.kind = "unread" /\ CallGoes(c, "auth")) =>
            \A d \in CallNext(c) : d.total = Cardinality(C28_Unread(store, c.user))
       /\ (c.kind = "unread" /\ CallGoes(c, "answer")) =>
            out' = {Response(200, [unreadCount |-> c.total])}
       /\ (c.kind = "read" /\ CallGoes(c, "update")) =>
            /\ C28_UnreadFrom(store', CastId(c.peer), c.user) = {}
            /\ \A other \in Users \ {CastId(c.peer)} :
                 C28_UnreadFrom(store', other, c.user)
                   = C28_UnreadFrom(store, other, c.user)]_vars

\* User 2 has just marked the message from user 1 read and still has an
\* unread message from another sender.
C28_Witness ==
  /\ out = {Response(200, [modifiedCount |-> 1])}
  /\ \E i, j \in Ids :
       /\ store[i].sender = 1 /\ store[i].receiver = 2 /\ store[i].status = "read"
       /\ store[j].sender = 2 /\ store[j].receiver = 2 /\ store[j].status # "read"

\* C29: the conversation list the aggregation gives for U with a limit has
\* at most `limit` entries and at most one per peer; each lastMessage is a
\* message between U and that peer, not deleted, with the greatest createdAt
\* among those; the entries come with lastMessage.createdAt never increasing;
\* when U has at most `limit` peers, every peer with whom U has a message
\* that is not deleted has an entry, whether the peer still has an account
\* or not; and the endpoint answers that list.
C29_With(u, p) ==
  {i \in Ids : /\ ~store[i].isDeleted
               /\ \/ store[i].sender = u /\ store[i].receiver = p
                  \/ store[i].sender = p /\ store[i].receiver = u}

C29_Peers(u) == {p \in UserIds : C29_With(u, p) # {}}

C29_Entry(u, c) ==
  /\ c.lastMessage \in C29_With(u, c.participant)
  /\ \A i \in C29_With(u, c.participant) :
       store[c.lastMessage].createdAt >= store[i].createdAt

C29_List(u, l, cs) ==
  /\ Len(cs) <= l
  /\ \A j, k \in DOMAIN cs : j # k => cs[j].participant # cs[k].participant
  /\ \A k \in DOMAIN cs : C29_Entry(u, cs[k])
  /\ \A j, k \in DOMAIN cs :
       j < k => store[cs[j].lastMessage].createdAt >= store[cs[k].lastMessage].createdAt
  /\ Cardinality(C29_Peers(u)) <= l
       => {cs[k].participant : k \in DOMAIN cs} = C29_Peers(u)

C29_LatestConversations ==
  [][\A c \in calls : c.kind = "list" =>
       /\ CallGoes(c, "auth") =>
            \A d \in CallNext(c) : C29_List(c.user, c.limit, d.found)
       /\ CallGoes(c, "answer") =>
            out' = {Response(200, [conversations |-> c.found])}]_vars

\* C30: a forward by F to R reads message m as it is stored and changes
\* nothing until its insert; the insert adds exactly one message, under a new
\* id, with sender F, receiver R, the content and the messageType of m as
\* read and status sent, and leaves m and every other stored message as it
\* is; the forward is then answered with 201 and the new id.
C30_Copy(doc, c) ==
  /\ doc.sender = c.user
  /\ doc.receiver = CastId(c.peer)
  /\ doc.content = c.orig.content
  /\ doc.messageType = c.orig.messageType
  /\ doc.status = "sent"

C30_ForwardCopies ==
  [][\A c \in calls : c.kind = "forward" =>
       /\ CallGoes(c, "auth") =>
            /\ store' = store
            /\ \A d \in CallNext(c) : d.hit => d.orig = store[c.id]
       /\ (CallGoes(c, "find") \/ CallGoes(c, "receiver")) => store' = store
       /\ (CallGoes(c, "insert") /\ store' # store) =>
            /\ Len(store') = Len(store) + 1
            /\ SubSeq(store', 1, Len(store)) = store
            /\ C30_Copy(store'[Len(store')], c)
            /\ \A d \in CallNext(c) : d.id = Len(store')
       /\ (CallGoes(c, "populate") /\ \E e \in out' : e.type = "response")
            => out' = {Response(201, [message |-> c.id])}]_vars

\* The message from user 1 to user 2, delivered and edited since, has a copy
\* sent by user 2 that has just been created.
C30_Witness ==
  /\ Len(store) = 2
  /\ out = {Response(201, [message |-> 2])}
  /\ store[1].sender = 1 /\ store[1].receiver = 2
  /\ store[1].status = "delivered" /\ store[1].editedAt # None
  /\ store[2].sender = 2
  /\ store[2].content = store[1].content
  /\ store[2].status = "sent" /\ store[2].editedAt = None

\* C31: no HTTP endpoint shows a message to a user who is neither its sender
\* nor its receiver: a forward by such a user is refused and stores nothing,
\* and the answer to a create carries, with the new message and the message
\* it replies to, only messages of which the requesting user is sender or
\* receiver.
C31_Participant(doc, u) == doc.sender = u \/ doc.receiver = u

C31_OnlyParticipantsSee ==
  [][\A c \in calls :
       /\ (c.kind = "forward" /\ CallGoes(c, "find") /\ c.hit
             /\ ~C31_Participant(c.orig, c.user))
            => /\ out' = {Response(403, NoBody)}
               /\ store' = store
               /\ CallNext(c) = {}
       /\ (c.kind = "send" /\ CallGoes(c, "populate")
             /\ \E e \in out' : e.type = "response")
            => \A m \in Populated(store, c.id) : C31_Participant(store[m], c.user)]_vars

\* C32: when user U's fetch of the conversation with another user P is
\* answered, whatever the page and the limit, every message from P to U that
\* was stored when the request arrived has status read, those outside the
\* page returned too; and the update of the fetch changes no message from U
\* to P.
C32_FetchMarksAllRead ==
  [][\A c \in calls :
       (c.kind = "conv" /\ CastId(c.peer) # c.user) =>
         /\ CallGoes(c, "update") =>
              /\ Len(store') = Len(store)
              /\ \A i \in Ids :
                   (store[i].sender = c.user /\ store[i].receiver = CastId(c.peer))
                     => store'[i] = store[i]
         /\ CallGoes(c, "answer") =>
              \A i \in 1..c.began :
                (store[i].sender = CastId(c.peer) /\ store[i].receiver = c.user)
                  => store'[i].status = "read"]_vars

\* C33: for every user U, the conversation list with a limit of at least
\* the number of U's peers gives, for each entry, the number of non-deleted
\* messages from that participant to U that are not read, and the unread
\* counts of the entries add up to getUnreadCount(U).
RECURSIVE C33_Sum(_)
C33_Sum(list) ==
  IF list = <<>> THEN 0 ELSE Head(list).unreadCount + C33_Sum(Tail(list))

C33_UnreadFrom(p, u) ==
  Cardinality({i \in Ids : /\ store[i].sender = p /\ store[i].receiver = u
                           /\ store[i].status # "read" /\ ~store[i].isDeleted})

C33_CountsAgree ==
  \A u \in Accounts : \A list \in getLatestConversations(store, u, LatestLimit) :
    /\ \A k \in DOMAIN list :
         list[k].unreadCount = C33_UnreadFrom(list[k].participant, u)
    /\ C33_Sum(list) = getUnreadCount(store, u)

\* C34: a send-message handler ends in exactly one of two ways: its message
\* is stored and broadcast and its socket gets no error event, or its socket
\* gets an error event and its message is not stored.
C34_Ends(t) ==
  /\ t.kind = "send" /\ TaskGoes(t, t.pc) /\ TaskNext(t) = {}
  /\ running

C34_Error(t) == \E e \in out' : e.type = "error" /\ e.conn = t.conn

C34_Broadcast(t) ==
  /\ t.id \in DOMAIN store'
  /\ Event("newMessage", t.conn,
           generateConversationId(conn[t.conn].user, t.peer), t.id, "") \in out'

C34_CommitOrError ==
  [][\A t \in tasks :
       C34_Ends(t) =>
         \/ C34_Broadcast(t) /\ ~C34_Error(t)
         \/ C34_Error(t) /\ t.id = 0 /\ store' = store]_vars

\* C35: when a send-message handler broadcasts the message it stored for
\* another user, every open connection of the receiver whose setup is
\* complete gets it: as newMessage when the connection is in the room of the
\* pair's key, as messageNotification when it is not.
C35_Gets(d, type, id) ==
  \E e \in out' : e.type = type /\ e.id = id /\ e.room \in conn[d].rooms

C35_Broadcasts(t) ==
  /\ t.kind = "send" /\ TaskGoes(t, "populate")
  /\ \E e \in out' : e.type = "newMessage"

C35_ReceiverGetsMessage ==
  [][\A t \in tasks :
       C35_Broadcasts(t) =>
         \A d \in Conns \ {t.conn} :
           (/\ Listening(d)
            /\ conn[d].user = t.doc.receiver
            /\ t.doc.sender # t.doc.receiver) =>
             IF generateConversationId(t.doc.sender, t.doc.receiver) \in conn[d].rooms
             THEN C35_Gets(d, "newMessage", t.id)
             ELSE C35_Gets(d, "messageNotification", t.id)]_vars

\* C36: the document that a send-message event without a messageType hands
\* to save(), which is stored as it is, has the messageType that the HTTP
\* create gives to the same content.
C36_SameTypeAsHttp ==
  [][\A t \in tasks :
       (t.kind = "send" /\ t.mt = "omitted" /\ TaskGoes(t, "receiver"))
         => \A d \in TaskNext(t) :
              d.doc.messageType = DetectType(Trim(t.content))]_vars

\* C37: a message gets status delivered only in a step in which the
\* markAsDelivered of a join-conversation handler is applied, never by the
\* passage of time.
C37_DeliveredOnlyByJoin ==
  [][\A i \in DOMAIN store' :
       (/\ store'[i].status = "delivered"
        /\ i \in Ids => store[i].status # "delivered")
         => \E t \in tasks :
              /\ t.kind = "join" /\ TaskGoes(t, "update")
              /\ store'[i].sender = CastId(t.peer)
              /\ store'[i].receiver = conn[t.conn].user]_vars

\* C38: the status and the timestamps of every stored message agree: the
\* status is read exactly when readAt is set, and a delivered message has
\* deliveredAt set.
C38_StatusMatchesTimestamps ==
  \A i \in Ids :
    /\ store[i].status = "read" <=> store[i].readAt # None
    /\ store[i].status = "delivered" => store[i].deliveredAt # None

\* C39: every connection in the conversation room of a key belongs to one
\* of the two users the key names, so every newMessage, typingIndicator and
\* messageRead reaches connections of these two users only.
C39_Named(room) == {CastId(room.a), CastId(room.b)}

C39_RoomsOfParticipants ==
  /\ \A c \in Conns : \A room \in ConvRooms(c) : conn[c].user \in C39_Named(room)
  /\ \A e \in out :
       e.type \in {"newMessage", "typingIndicator", "messageRead"} =>
         \A d \in Members(e.room) : conn[d].user \in C39_Named(e.room)

\* A typingIndicator of one user has just gone to a room in which a
\* connection of the other user of its key is.
C39_Witness ==
  \E e \in out :
    /\ e.type = "typingIndicator"
    /\ \E d \in Members(e.room) : conn[d].user # conn[e.conn].user

\* C40: an edit or a forward of a message that was deleted when the request
\* read it stores nothing and changes nothing: no message that is not deleted
\* gets its content and the deleted message stays as it is.
C40_DeletedIsFinal ==
  [][\A c \in calls :
       (/\ c.kind \in {"edit", "forward"} /\ c.orig.isDeleted
        /\ CallGoes(c, "save") \/ CallGoes(c, "insert"))
         => store' = store]_vars

====
